---- MODULE Spec2Model ----
(***************************************************************************)
(* Insights / AI-coaching core of the Tether backend.                      *)
(*                                                                         *)
(*   app/services/ai_coaching_service.py   coaching engine, rate limiter,  *)
(*                                         caches, goal parsing            *)
(*   app/services/insights_service.py      optimal length, streak          *)
(*   app/services/stats_service.py         streak query                    *)
(*                                                                         *)
(* Time is counted in seconds from midnight of day 0; the calendar date is *)
(* now \div 86400.  The key-value store is the Redis interface the service *)
(* uses (get, set with ex, incr, expire); an entry is removed when its     *)
(* expiry time is reached.                                                 *)
(***************************************************************************)
EXTENDS Integers, Sequences, FiniteSets, TLC

VARIABLES
    now,            \* current time in seconds (datetime.now / date.today)
    redis,          \* key-value store: key -> [val, exp]
    sessionTable,   \* Session rows: session id -> [user_id]
    last,           \* outcome of the latest coaching request
    req,            \* inputs of the latest request made while the store may fail
    lastGen,        \* per cached kind: the latest request's outcome and time
    checks,         \* number of _check_rate_limit calls of the requester today
    budget,         \* number of further _check_rate_limit calls the model explores
    raw_dates,      \* input list of the streak calculator (days, as integers)
    storedDates,    \* start dates of the completed sessions, in insertion order
    streak,         \* latest streak result: [via, value]
    sessions,       \* Session table for the insights queries: a bag of rows
    optimal,        \* latest get_optimal_session_length result
    answer,         \* latest answer of an insights or stats function: [op, raised, value]
    response,       \* text a provider returned for the goals prompt, as tokens
    suggestions,    \* what goal parsing and the goals request made of it
    args,           \* arguments of the function applied last (settings, session figures)
    procs,          \* concurrent coaching requests: process -> [pc, kind, count, text]
    tally           \* what the concurrent requests have done so far

vars == <<now, redis, sessionTable, last, req, lastGen, checks, budget,
          raw_dates, storedDates, streak, sessions, optimal, answer,
          response, suggestions, args, procs, tally>>

coachVars == <<redis, sessionTable, last, req, lastGen, checks, budget>>
streakVars == <<raw_dates, storedDates, streak>>
optimalVars == <<sessions, optimal>>
parseVars == <<response, suggestions>>
callVars == <<args, procs, tally>>

-----------------------------------------------------------------------------
(* Bounds of the model *)

\* days after day 0 on which requests are made
MaxDay == 1
\* rate-limit checks of the requester per day (SpecCoach)
MaxChecks == 21
\* rate-limit checks made while the caches are followed hour by hour (SpecCache)
MaxCacheChecks == 3
\* rate-limit checks made while store operations may fail (SpecFault)
MaxFaultChecks == 2
\* calendar days 0 .. MaxDate carry sessions in the streak specifications
MaxDate == 3
\* length of the list handed to the streak calculator (SpecStreak)
MaxDates == 4
\* number of Session rows stored for the streak query (SpecStreakQuery)
MaxStored == 3
\* number of Session rows stored for the optimal-length query (SpecOptimal)
MaxSessions == 7
\* number of Session rows stored for the insights functions (SpecInsights)
MaxRows == 4

-----------------------------------------------------------------------------
(* Program constants *)

SecondsPerDay == 24 * 3600
\* _check_rate_limit(redis_client, user_id, limit=20)
RateLimit == 20
\* redis_client.expire(key, 86400)
RateTTL == 86400
\* redis_client.set(cache_key, summary, ex=86400)
SummaryTTL == 86400
\* redis_client.set(cache_key, nudge, ex=3600)
NudgeTTL == 3600
\* redis_client.set(cache_key, json.dumps(goals), ex=86400)
GoalsTTL == 86400
\* if len(ratios) >= 3
MinSamples == 3
\* best_label = 25  # sensible default
DefaultLabel == 25

-----------------------------------------------------------------------------
(* Inputs *)

Users == {"u1", "u2"}
\* the user whose requests are modelled
Requesters == {"u1"}
\* s1 belongs to u1, s2 to u2, s3 does not exist
SessionIds == {"s1", "s2", "s3"}
SessionRows == [s \in {"s1", "s2"} |-> [user_id |-> IF s = "s1" THEN "u1" ELSE "u2"]]

\* instants at which requests arrive: the start of a day, and one hour later
DayStarts == {d * SecondsPerDay : d \in 0..MaxDay}
TimePoints == {d + o : d \in DayStarts, o \in {0, NudgeTTL}}

\* texts a provider returns for a summary or a nudge ("" : response.choices[0].message.content or "")
Texts == {"", "t1"}

StoreOps == {"get", "incr", "expire", "set"}
\* the store operations that raise during a request: none, one of them, or all
FaultSets == {{}} \cup {{op} : op \in StoreOps} \cup {StoreOps}

\* provider responses to the goals prompt, as token sequences:
\*   "P" prose or a markdown fence, "N" a number, "G1" "G2" objects with the keys
\*   goal, target, reasoning, "Gn" such an object with a numeric target,
\*   "B" an object without the key reasoning
GoalRaws ==
    { <<"[", "Gn", ",", "G2", "]">>,
      <<"P", "[", "G1", ",", "B", "]", "P">>,
      <<"[", "B", "]">>,
      <<"G1">>,
      <<"P">> }

-----------------------------------------------------------------------------
(* Key-value store (redis.asyncio client, decode_responses=True) *)

NoExpiry == 0 - 1
NoDate == 0 - 1

\* one counter for all users
RateKeyShared(u, t) == <<"ai_rate", "all", t \div SecondsPerDay>>

\* f"ai_rate:{user_id}:{date.today().isoformat()}"
RateKey(u, t) == <<"ai_rate", u, t \div SecondsPerDay>>
\* f"ai_summary:{session_id}"
SummaryKey(sid) == <<"ai_summary", sid, NoDate>>
\* f"ai_nudge:{user_id}"
NudgeKey(u) == <<"ai_nudge", u, NoDate>>
\* f"ai_goals:{user_id}"
GoalsKey(u) == <<"ai_goals", u, NoDate>>

None == [src |-> "none"]

Put(st, key, entry) ==
    [k \in DOMAIN st \cup {key} |-> IF k = key THEN entry ELSE st[k]]

\* GET key
RedisGet(st, key) == IF key \in DOMAIN st THEN st[key].val ELSE None

\* SET key value EX ex NX: a key that exists keeps its value
RedisSetIfAbsent(st, key, value, ex, t) ==
    IF key \in DOMAIN st THEN st ELSE Put(st, key, [val |-> value, exp |-> t + ex])

\* SET key value EX ex
RedisSet(st, key, value, ex, t) == Put(st, key, [val |-> value, exp |-> t + ex])

\* an existing key is left as it is
RedisIncrOnce(st, key) ==
    IF key \in DOMAIN st THEN st
    ELSE [k \in DOMAIN st \cup {key} |->
            IF k = key THEN [val |-> [src |-> "counter", n |-> 1], exp |-> 0 - 1]
            ELSE st[k]]

\* INCR key: a missing key counts from 0 and gets no expiry; an existing key keeps its expiry
RedisIncr(st, key) ==
    IF key \in DOMAIN st
    THEN Put(st, key, [val |-> [src |-> "counter", n |-> st[key].val.n + 1],
                       exp |-> st[key].exp])
    ELSE Put(st, key, [val |-> [src |-> "counter", n |-> 1], exp |-> NoExpiry])

\* EXPIRE key seconds
RedisExpire(st, key, seconds, t) ==
    IF key \in DOMAIN st
    THEN Put(st, key, [val |-> st[key].val, exp |-> t + seconds])
    ELSE st

\* entries whose expiry time has been reached are gone
Purge(st, t) ==
    LET keep == {k \in DOMAIN st : st[k].exp = NoExpiry \/ st[k].exp > t}
    IN  [k \in keep |-> st[k]]

\* Python truthiness of a value read from the store: None and "" are falsy
Truthy(v) == v # None /\ v # [src |-> "provider", text |-> ""]

CounterOf(st, u, t) ==
    IF RateKey(u, t) \in DOMAIN st THEN st[RateKey(u, t)].val.n ELSE 0

-----------------------------------------------------------------------------
(* Rate limiting *)

\* off by one: the limit-th request is refused
RateLimitCheckStrict(count, limit) == count < limit

\* one request more than the limit passes
RateLimitCheckInclusive(count, limit) == count <= limit + 1

\* return count <= limit
RateLimitCheck(count, limit) == count <= limit

\* the expiry is set again by every check
CheckRateLimitExtending(st, u, t, faults) ==
    LET st1 == RedisIncr(st, RateKey(u, t))
    IN  [st |-> RedisExpire(st1, RateKey(u, t), RateTTL, t), raised |-> FALSE,
         ok |-> RateLimitCheck(st1[RateKey(u, t)].val.n, RateLimit)]

\* _check_rate_limit: [st, raised, ok]
CheckRateLimit(st, u, t, faults) ==
    LET key == RateKey(u, t) IN
    IF "incr" \in faults
    THEN [st |-> st, raised |-> TRUE, ok |-> FALSE]
    ELSE LET st1 == RedisIncr(st, key)
             count == st1[key].val.n
         IN  IF count = 1
             THEN IF "expire" \in faults
                  THEN [st |-> st1, raised |-> TRUE, ok |-> FALSE]
                  ELSE [st |-> RedisExpire(st1, key, RateTTL, t), raised |-> FALSE,
                        ok |-> RateLimitCheck(count, RateLimit)]
             ELSE [st |-> st1, raised |-> FALSE, ok |-> RateLimitCheck(count, RateLimit)]

-----------------------------------------------------------------------------
(* Goal parsing: json.loads, _parse_goals_json, _validate_goals *)

ObjectTokens == {"G1", "G2", "Gn", "B"}

\* the parsed JSON object a token stands for: key -> value
ObjectOf(tok) ==
    CASE tok = "G1" -> [goal |-> [s |-> "A"], target |-> [s |-> "B"], reasoning |-> [s |-> "C"]]
      [] tok = "G2" -> [goal |-> [s |-> "D"], target |-> [s |-> "E"], reasoning |-> [s |-> "F"]]
      [] tok = "Gn" -> [goal |-> [s |-> "A"], target |-> [n |-> 60], reasoning |-> [s |-> "C"]]
      [] tok = "B"  -> [goal |-> [s |-> "A"], target |-> [s |-> "B"]]

JsonFail == [ok |-> FALSE, next |-> 0, val |-> [t |-> "none", tok |-> "", items |-> <<>>]]

RECURSIVE JsonValue(_, _)
RECURSIVE JsonElems(_, _, _)

\* one JSON value starting at token i: [ok, next, val]
JsonValue(toks, i) ==
    IF i > Len(toks) THEN JsonFail
    ELSE IF toks[i] \in ObjectTokens
         THEN [ok |-> TRUE, next |-> i + 1, val |-> [t |-> "dict", tok |-> toks[i], items |-> <<>>]]
    ELSE IF toks[i] = "N"
         THEN [ok |-> TRUE, next |-> i + 1, val |-> [t |-> "num", tok |-> "N", items |-> <<>>]]
    ELSE IF toks[i] = "["
         THEN IF i + 1 <= Len(toks) /\ toks[i + 1] = "]"
              THEN [ok |-> TRUE, next |-> i + 2, val |-> [t |-> "list", tok |-> "", items |-> <<>>]]
              ELSE JsonElems(toks, i + 1, <<>>)
    ELSE JsonFail

\* the elements of an array after "[" : value ("," value)* "]"
JsonElems(toks, i, acc) ==
    LET v == JsonValue(toks, i) IN
    IF ~v.ok \/ v.next > Len(toks) THEN JsonFail
    ELSE IF toks[v.next] = ","
         THEN JsonElems(toks, v.next + 1, Append(acc, v.val))
    ELSE IF toks[v.next] = "]"
         THEN [ok |-> TRUE, next |-> v.next + 1,
               val |-> [t |-> "list", tok |-> "", items |-> Append(acc, v.val)]]
    ELSE JsonFail

\* json.loads(text): the whole text must be one JSON value, else JSONDecodeError
JsonLoads(toks) ==
    LET r == JsonValue(toks, 1) IN
    IF r.ok /\ r.next = Len(toks) + 1 THEN [ok |-> TRUE, val |-> r.val]
    ELSE [ok |-> FALSE, val |-> JsonFail.val]

\* str(value)
Str(v) == IF "s" \in DOMAIN v THEN v.s ELSE ToString(v.n)

RequiredKeys == {"goal", "target", "reasoning"}

IsValidGoal(g) == g.t = "dict" /\ RequiredKeys \subseteq DOMAIN ObjectOf(g.tok)

GoalDict(g) ==
    LET o == ObjectOf(g.tok) IN
    [goal |-> Str(o.goal), target |-> Str(o.target), reasoning |-> Str(o.reasoning)]

RECURSIVE Validated(_)
Validated(items) ==
    IF items = <<>> THEN <<>>
    ELSE IF IsValidGoal(Head(items))
         THEN <<GoalDict(Head(items))>> \o Validated(Tail(items))
         ELSE Validated(Tail(items))

NoGoals == [ok |-> FALSE, goals |-> <<>>]

ValidateGoalsKeepsEmpty(items) == [ok |-> TRUE, goals |-> Validated(items)]

\* _validate_goals: the valid elements, or None when there is none
ValidateGoals(items) ==
    LET validated == Validated(items) IN
    IF validated # <<>> THEN [ok |-> TRUE, goals |-> validated] ELSE NoGoals

\* raw.find("["): 0 when absent
Find(toks, c) ==
    IF \E i \in 1..Len(toks) : toks[i] = c
    THEN CHOOSE i \in 1..Len(toks) : toks[i] = c /\ \A j \in 1..(i - 1) : toks[j] # c
    ELSE 0

\* raw.rfind("]"): 0 when absent
RFind(toks, c) ==
    IF \E i \in 1..Len(toks) : toks[i] = c
    THEN CHOOSE i \in 1..Len(toks) : toks[i] = c /\ \A j \in (i + 1)..Len(toks) : toks[j] # c
    ELSE 0

\* _parse_goals_json: [ok, goals], ok = FALSE for None
ParseGoalsJson(raw) ==
    LET direct == JsonLoads(raw)
        start == Find(raw, "[")
        end == RFind(raw, "]")
    IN  IF direct.ok /\ direct.val.t = "list"
        THEN ValidateGoals(direct.val.items)
        ELSE IF start # 0 /\ end # 0 /\ end > start
             THEN LET sliced == JsonLoads(SubSeq(raw, start, end)) IN
                  IF sliced.ok /\ sliced.val.t = "list"
                  THEN ValidateGoals(sliced.val.items)
                  ELSE NoGoals
             ELSE NoGoals

\* json.dumps(goals) and json.loads of a cached document
JsonDumps(goals) == [src |-> "provider", json |-> goals]
JsonLoadsCached(v) == v.json

-----------------------------------------------------------------------------
(* Responses *)

ProviderText(text) == [src |-> "provider", text |-> text]
\* the rule-based texts (_fallback_session_summary, _fallback_nudge)
FallbackText(kind) == [src |-> "fallback", text |-> kind]
\* the rule-based goals (_fallback_goals): always three goals
FallbackGoals ==
    [src |-> "fallback",
     goals |-> << [goal |-> "focus", target |-> "min/day", reasoning |-> "r1"],
                  [goal |-> "sessions", target |-> "sessions/day", reasoning |-> "r2"],
                  [goal |-> "streak", target |-> "3 consecutive days", reasoning |-> "r3"] >>]
ProviderGoals(goals) == [src |-> "provider", goals |-> goals]
NotFound == [src |-> "notfound", text |-> "Session not found."]
Exception == [src |-> "exception"]

\* the provider argument: None (not configured), or a provider whose generate()
\* raises or returns `out`
NoProvider == [configured |-> FALSE, raise |-> TRUE, out |-> ""]
FailingProvider == [configured |-> TRUE, raise |-> TRUE, out |-> ""]
Providers(outs) ==
    {NoProvider, FailingProvider} \cup {[configured |-> TRUE, raise |-> FALSE, out |-> o] : o \in outs}

\* the outcome of one request:
\*   st       the store afterwards
\*   resp     the returned content (Exception when the call raised)
\*   ai       is_ai_generated
\*   calls    number of provider.generate calls made
\*   checked  _check_rate_limit was called;  allowed: it returned True
\*   hit      the response came from the cache;  wrote: a cache entry was written
Outcome(st, resp, ai, calls, checked, allowed, hit, wrote) ==
    [st |-> st, resp |-> resp, ai |-> ai, raised |-> resp = Exception, calls |-> calls,
     checked |-> checked, allowed |-> allowed, hit |-> hit, wrote |-> wrote]

\* the exception of the provider is not caught
ProviderFailedRaises(st, key, ttl, fallback, attached, t) ==
    Outcome(st, Exception, FALSE, 1, attached, attached, FALSE, FALSE)

\* the fallback is cached like a generated text
ProviderFailedCaches(st, key, ttl, fallback, attached, t) ==
    Outcome(IF attached THEN RedisSet(st, key, fallback, ttl, t) ELSE st,
            fallback, FALSE, 1, attached, attached, FALSE, attached)

\* except Exception: logger.exception(...), then the function falls through to its
\* fallback return; nothing is written to the store
ProviderFailed(st, key, ttl, fallback, attached, t) ==
    Outcome(st, fallback, FALSE, 1, attached, attached, FALSE, FALSE)

-----------------------------------------------------------------------------
(* Main service functions *)

\* the row is looked up by its id alone
GetSessionDataAnyUser(table, u, sid) ==
    IF sid \in DOMAIN table THEN table[sid] ELSE None

\* _get_session_data: the row with this id and this user, or None
GetSessionData(table, u, sid) ==
    IF sid \in DOMAIN table /\ table[sid].user_id = u THEN table[sid] ELSE None

\* the summary cache is read before generation, as the nudge cache is
GenerateSessionSummaryReadThrough(st, table, u, sid, provider, attached, faults, t) ==
    LET rl == IF attached THEN CheckRateLimit(st, u, t, faults)
              ELSE [st |-> st, raised |-> FALSE, ok |-> TRUE]
        fallback == FallbackText("summary")
    IN  IF GetSessionData(table, u, sid) = None
        THEN Outcome(st, NotFound, FALSE, 0, FALSE, FALSE, FALSE, FALSE)
        ELSE IF attached /\ SummaryKey(sid) \in DOMAIN st
        THEN Outcome(st, RedisGet(st, SummaryKey(sid)), TRUE, 0, FALSE, FALSE, TRUE, FALSE)
        ELSE IF attached /\ ~rl.ok
        THEN Outcome(rl.st, fallback, FALSE, 0, TRUE, FALSE, FALSE, FALSE)
        ELSE IF provider.configured /\ ~provider.raise
        THEN Outcome(IF attached
                     THEN RedisSet(rl.st, SummaryKey(sid), ProviderText(provider.out),
                                   SummaryTTL, t)
                     ELSE rl.st,
                     ProviderText(provider.out), TRUE, 1, attached, attached, FALSE, attached)
        ELSE Outcome(rl.st, fallback, FALSE, IF provider.configured THEN 1 ELSE 0,
                     attached, attached, FALSE, FALSE)

\* generate_session_summary(db, user_id, session_id, provider, redis_client)
GenerateSessionSummary(st, table, u, sid, provider, attached, faults, t) ==
    LET session_data == GetSessionData(table, u, sid)
        rl == IF attached THEN CheckRateLimit(st, u, t, faults)
              ELSE [st |-> st, raised |-> FALSE, ok |-> TRUE]
        fallback == FallbackText("summary")
    IN  IF session_data = None
        THEN Outcome(st, NotFound, FALSE, 0, FALSE, FALSE, FALSE, FALSE)
        ELSE IF rl.raised
        THEN Outcome(rl.st, Exception, FALSE, 0, TRUE, FALSE, FALSE, FALSE)
        ELSE IF attached /\ ~rl.ok
        THEN Outcome(rl.st, fallback, FALSE, 0, TRUE, FALSE, FALSE, FALSE)
        ELSE IF provider.configured
        THEN IF provider.raise
             THEN ProviderFailed(rl.st, SummaryKey(sid), SummaryTTL, fallback, attached, t)
             ELSE IF attached
                  THEN IF "set" \in faults
                       THEN ProviderFailed(rl.st, SummaryKey(sid), SummaryTTL, fallback,
                                           attached, t)
                       ELSE Outcome(RedisSet(rl.st, SummaryKey(sid), ProviderText(provider.out),
                                             SummaryTTL, t),
                                    ProviderText(provider.out), TRUE, 1, TRUE, TRUE, FALSE, TRUE)
                  ELSE Outcome(rl.st, ProviderText(provider.out), TRUE, 1, FALSE, FALSE, FALSE, FALSE)
        ELSE Outcome(rl.st, fallback, FALSE, 0, attached, attached, FALSE, FALSE)

\* generate_coaching_nudge(db, user_id, provider, redis_client)
GenerateCoachingNudge(st, u, provider, attached, faults, t) ==
    LET cached == IF attached /\ "get" \notin faults THEN RedisGet(st, NudgeKey(u)) ELSE None
        rl == IF attached THEN CheckRateLimit(st, u, t, faults)
              ELSE [st |-> st, raised |-> FALSE, ok |-> TRUE]
        fallback == FallbackText("nudge")
    IN  IF attached /\ "get" \in faults
        THEN Outcome(st, Exception, FALSE, 0, FALSE, FALSE, FALSE, FALSE)
        ELSE IF attached /\ Truthy(cached)
        THEN Outcome(st, cached, TRUE, 0, FALSE, FALSE, TRUE, FALSE)
        ELSE IF rl.raised
        THEN Outcome(rl.st, Exception, FALSE, 0, TRUE, FALSE, FALSE, FALSE)
        ELSE IF attached /\ ~rl.ok
        THEN Outcome(rl.st, fallback, FALSE, 0, TRUE, FALSE, FALSE, FALSE)
        ELSE IF provider.configured
        THEN IF provider.raise
             THEN ProviderFailed(rl.st, NudgeKey(u), NudgeTTL, fallback, attached, t)
             ELSE IF attached
                  THEN IF "set" \in faults
                       THEN ProviderFailed(rl.st, NudgeKey(u), NudgeTTL, fallback, attached, t)
                       ELSE Outcome(RedisSet(rl.st, NudgeKey(u), ProviderText(provider.out),
                                             NudgeTTL, t),
                                    ProviderText(provider.out), TRUE, 1, TRUE, TRUE, FALSE, TRUE)
                  ELSE Outcome(rl.st, ProviderText(provider.out), TRUE, 1, FALSE, FALSE, FALSE, FALSE)
        ELSE Outcome(rl.st, fallback, FALSE, 0, attached, attached, FALSE, FALSE)

\* generate_goal_suggestions(db, user_id, provider, redis_client)
\* (a cached document is one this function wrote with json.dumps, so json.loads
\*  of it does not fail)
GenerateGoalSuggestions(st, u, provider, attached, faults, t) ==
    LET cached == IF attached /\ "get" \notin faults THEN RedisGet(st, GoalsKey(u)) ELSE None
        rl == IF attached THEN CheckRateLimit(st, u, t, faults)
              ELSE [st |-> st, raised |-> FALSE, ok |-> TRUE]
        parsed == IF provider.raise THEN NoGoals ELSE ParseGoalsJson(provider.out)
    IN  IF attached /\ "get" \in faults
        THEN Outcome(st, Exception, FALSE, 0, FALSE, FALSE, FALSE, FALSE)
        ELSE IF attached /\ cached # None
        THEN Outcome(st, ProviderGoals(JsonLoadsCached(cached)), TRUE, 0,
                     FALSE, FALSE, TRUE, FALSE)
        ELSE IF rl.raised
        THEN Outcome(rl.st, Exception, FALSE, 0, TRUE, FALSE, FALSE, FALSE)
        ELSE IF attached /\ ~rl.ok
        THEN Outcome(rl.st, FallbackGoals, FALSE, 0, TRUE, FALSE, FALSE, FALSE)
        ELSE IF provider.configured
        THEN IF provider.raise
             THEN ProviderFailed(rl.st, GoalsKey(u), GoalsTTL, FallbackGoals, attached, t)
             ELSE IF ~parsed.ok
             THEN Outcome(rl.st, FallbackGoals, FALSE, 1, attached, attached, FALSE, FALSE)
             ELSE IF attached
                  THEN IF "set" \in faults
                       THEN ProviderFailed(rl.st, GoalsKey(u), GoalsTTL, FallbackGoals,
                                           attached, t)
                       ELSE Outcome(RedisSet(rl.st, GoalsKey(u), JsonDumps(parsed.goals),
                                             GoalsTTL, t),
                                    ProviderGoals(parsed.goals), TRUE, 1, TRUE, TRUE,
                                    FALSE, TRUE)
                  ELSE Outcome(rl.st, ProviderGoals(parsed.goals), TRUE, 1,
                               FALSE, FALSE, FALSE, FALSE)
        ELSE Outcome(rl.st, FallbackGoals, FALSE, 0, attached, attached, FALSE, FALSE)

-----------------------------------------------------------------------------
(* Coaching requests as actions *)

NoRequest == [op |-> "none", src |-> "none", ai |-> FALSE, calls |-> 0, checked |-> FALSE]

Record(op, out) ==
    [op |-> op, src |-> out.resp.src, ai |-> out.ai, calls |-> out.calls,
     checked |-> out.checked]

NoInputs ==
    [provider |-> FALSE, genOk |-> FALSE, attached |-> FALSE, faults |-> {}, found |-> FALSE]

NoGen == [fresh |-> FALSE, resp |-> None, time |-> 0]

\* the latest request of a cached kind: fresh when it returned content the provider
\* generated in that request, with a working store attached
GenRecord(attached, faults, out, t) ==
    IF out.ai /\ out.calls = 1 /\ attached /\ faults = {}
    THEN [fresh |-> TRUE, resp |-> out.resp, time |-> t]
    ELSE NoGen

Spend(out) == IF out.checked THEN 1 ELSE 0

SummaryReq(u, sid, provider, attached, faults) ==
    /\ budget > 0
    /\ LET out == GenerateSessionSummary(redis, sessionTable, u, sid, provider,
                                         attached, faults, now)
       IN  /\ redis' = out.st
           /\ last' = Record("summary", out)
           /\ checks' = checks + Spend(out)
           /\ budget' = budget - Spend(out)
    /\ UNCHANGED <<now, sessionTable, lastGen, streakVars, optimalVars, answer, parseVars,
                   callVars>>

NudgeReq(u, provider, attached, faults) ==
    /\ budget > 0
    /\ LET out == GenerateCoachingNudge(redis, u, provider, attached, faults, now)
       IN  /\ redis' = out.st
           /\ last' = Record("nudge", out)
           /\ checks' = checks + Spend(out)
           /\ budget' = budget - Spend(out)
           /\ lastGen' = [lastGen EXCEPT !["nudge"] = GenRecord(attached, faults, out, now)]
    /\ UNCHANGED <<now, sessionTable, streakVars, optimalVars, answer, parseVars, callVars>>

GoalsReq(u, provider, attached, faults) ==
    /\ budget > 0
    /\ LET out == GenerateGoalSuggestions(redis, u, provider, attached, faults, now)
       IN  /\ redis' = out.st
           /\ last' = Record("goals", out)
           /\ checks' = checks + Spend(out)
           /\ budget' = budget - Spend(out)
           /\ lastGen' = [lastGen EXCEPT !["goals"] = GenRecord(attached, faults, out, now)]
    /\ UNCHANGED <<now, sessionTable, streakVars, optimalVars, answer, parseVars, callVars>>

\* time passes to the next of `points`; expired keys are gone; on a new day the
\* count of today's checks restarts (and the model explores dayBudget more, if > 0)
Advance(points, dayBudget) ==
    /\ \E t \in points : t > now
    /\ LET t == CHOOSE x \in points : x > now /\ \A y \in points : y > now => x <= y
           newDay == t \div SecondsPerDay # now \div SecondsPerDay
       IN  /\ now' = t
           /\ redis' = Purge(redis, t)
           /\ checks' = IF newDay THEN 0 ELSE checks
           /\ budget' = IF newDay /\ dayBudget > 0 THEN dayBudget ELSE budget
    /\ UNCHANGED <<sessionTable, last, req, lastGen, streakVars, optimalVars, answer,
                   parseVars, callVars>>

\* no streak computed yet;  rows: the number of stored rows the streak was computed from
NoStreak == [via |-> "none", value |-> 0, rows |-> 0]

NoAnswer == [op |-> "none", raised |-> FALSE, value |-> << >>]

NoOptimal == [recommended_minutes |-> 0, avg_focus_ratio |-> 0, sample_size |-> 0]

\* nothing parsed or requested yet;  parsed: what _parse_goals_json returned;
\* resp, ai: the content and the flag generate_goal_suggestions returned
NoSuggestions == [op |-> "none", parsed |-> NoGoals, resp |-> [src |-> "none"], ai |-> FALSE]

\* no function applied yet
NoArgs == << >>

\* the coaching requests that may be in flight together
Procs == {"p1", "p2"}

\* a request that has not started;  count: what incr returned to it;  text: what the
\* provider returned to it;  resp: what the request returned
Idle == [pc |-> "idle", count |-> 0, text |-> "", resp |-> None]

\* checks: increments done;  passed: checks that returned True;  calls: calls of
\* provider.generate;  writes: cache writes done;  written: the text written last
NoTally == [checks |-> 0, passed |-> 0, calls |-> 0, writes |-> 0, written |-> ""]

\* nothing stored, nothing asked
InitTables ==
    /\ procs = [p \in Procs |-> Idle]
    /\ tally = NoTally
    /\ raw_dates = << >>
    /\ storedDates = << >>
    /\ streak = NoStreak
    /\ sessions = << >>
    /\ optimal = NoOptimal
    /\ answer = NoAnswer
    /\ suggestions = NoSuggestions

InitOther ==
    /\ InitTables
    /\ response = << >>
    /\ args = NoArgs

InitCoach ==
    /\ now = 0
    /\ redis = << >>
    /\ sessionTable = SessionRows
    /\ last = NoRequest
    /\ req = NoInputs
    /\ lastGen = [k \in {"nudge", "goals"} |-> NoGen]
    /\ checks = 0
    /\ budget = MaxChecks
    /\ InitOther

SummaryStep ==
    /\ \E u \in Requesters, sid \in SessionIds, provider \in Providers(Texts),
          attached \in BOOLEAN :
           SummaryReq(u, sid, provider, attached, {})
    /\ UNCHANGED req

NudgeStep ==
    /\ \E u \in Requesters, provider \in Providers(Texts), attached \in BOOLEAN :
           NudgeReq(u, provider, attached, {})
    /\ UNCHANGED req

GoalsStep ==
    /\ \E u \in Requesters, provider \in Providers(GoalRaws), attached \in BOOLEAN :
           GoalsReq(u, provider, attached, {})
    /\ UNCHANGED req

NextDay == Advance(DayStarts, MaxChecks)

NextCoach == SummaryStep \/ NudgeStep \/ GoalsStep \/ NextDay

\* coaching requests day after day, the store attached and working, or not attached
SpecCoach == InitCoach /\ [][NextCoach]_vars

\* counts the rate counter may hold when the caches are followed
InitCounts == {0, RateLimit - 1, RateLimit + 1}

\* the state after n requests of today that reached the rate-limit check and
\* generated nothing
InitCache ==
    /\ now = 0
    /\ \E n \in InitCounts :
        /\ checks = n
        /\ redis = IF n = 0 THEN << >>
                   ELSE Put(<< >>, RateKey("u1", 0),
                            [val |-> [src |-> "counter", n |-> n], exp |-> RateTTL])
    /\ sessionTable = SessionRows
    /\ last = NoRequest
    /\ req = NoInputs
    /\ lastGen = [k \in {"nudge", "goals"} |-> NoGen]
    /\ budget = MaxCacheChecks
    /\ InitOther

Tick == Advance(TimePoints, 0)

NextCache == NudgeStep \/ GoalsStep \/ Tick

\* nudge and goals requests followed hour by hour
SpecCache == InitCache /\ [][NextCache]_vars

\* provider: one is configured;  genOk: its generate() returns usable content;
\* found: the request's session exists (TRUE for nudge and goals)
Inputs(provider, genOk, attached, faults, found) ==
    [provider |-> provider.configured, genOk |-> genOk, attached |-> attached,
     faults |-> faults, found |-> found]

SummaryFaultStep ==
    \E u \in Requesters, sid \in SessionIds, provider \in Providers(Texts),
       attached \in BOOLEAN, faults \in FaultSets :
        /\ SummaryReq(u, sid, provider, attached, faults)
        /\ req' = Inputs(provider, ~provider.raise, attached, faults,
                         GetSessionData(sessionTable, u, sid) # None)

NudgeFaultStep ==
    \E u \in Requesters, provider \in Providers(Texts),
       attached \in BOOLEAN, faults \in FaultSets :
        /\ NudgeReq(u, provider, attached, faults)
        /\ req' = Inputs(provider, ~provider.raise, attached, faults, TRUE)

GoalsFaultStep ==
    \E u \in Requesters, provider \in Providers(GoalRaws),
       attached \in BOOLEAN, faults \in FaultSets :
        /\ GoalsReq(u, provider, attached, faults)
        /\ req' = Inputs(provider, ~provider.raise /\ ParseGoalsJson(provider.out).ok,
                         attached, faults, TRUE)

InitFault ==
    /\ now = 0
    /\ redis = << >>
    /\ sessionTable = SessionRows
    /\ last = NoRequest
    /\ req = NoInputs
    /\ lastGen = [k \in {"nudge", "goals"} |-> NoGen]
    /\ checks = 0
    /\ budget = MaxFaultChecks
    /\ InitOther

NextFault == SummaryFaultStep \/ NudgeFaultStep \/ GoalsFaultStep

\* coaching requests during which operations of the store may raise
SpecFault == InitFault /\ [][NextFault]_vars

-----------------------------------------------------------------------------
(* Properties of the coaching engine *)

CacheNamespaces == {"ai_summary", "ai_nudge", "ai_goals"}

\* the cache entries of a store (everything but the rate counters)
CacheOf(st) ==
    LET keys == {k \in DOMAIN st : k[1] \in CacheNamespaces} IN [k \in keys |-> st[k]]

\* every outcome a request of any kind can have in the current state, the store
\* attached or not, with the operations in `faults` raising
RequestOutcomes(attached, faults) ==
    UNION {
        {GenerateSessionSummary(redis, sessionTable, u, sid, provider, attached, faults, now) :
            sid \in {x \in SessionIds : x \in DOMAIN sessionTable /\ sessionTable[x].user_id = u},
            provider \in Providers(Texts)}
        \cup {GenerateCoachingNudge(redis, u, provider, attached, faults, now) :
            provider \in Providers(Texts)}
        \cup {GenerateGoalSuggestions(redis, u, provider, attached, faults, now) :
            provider \in Providers(GoalRaws)}
        : u \in Requesters}

\* C1: with a store attached, the requests of all three kinds that reach the
\* rate-limit check are counted together per day; the first 20 of a day pass the
\* check, and every later one returns the rule-based fallback, not AI-generated,
\* without calling the provider.
C1_RateLimitPerDay ==
    \A out \in RequestOutcomes(TRUE, {}) :
        out.checked =>
            IF checks < RateLimit
            THEN out.allowed
            ELSE /\ ~out.allowed
                 /\ out.resp.src = "fallback"
                 /\ ~out.ai
                 /\ out.calls = 0

\* the 21st check of a day has been made and the request was refused
C1_Witness ==
    /\ checks = RateLimit + 1
    /\ last.checked /\ last.src = "fallback" /\ ~last.ai /\ last.calls = 0

TTLOf(kind) == IF kind = "nudge" THEN NudgeTTL ELSE GoalsTTL

CachedKindOutcomes(kind, u) ==
    IF kind = "nudge"
    THEN {GenerateCoachingNudge(redis, u, provider, TRUE, {}, now) :
             provider \in Providers(Texts)}
    ELSE {GenerateGoalSuggestions(redis, u, provider, TRUE, {}, now) :
             provider \in Providers(GoalRaws)}

\* C2: after a nudge or goals request returned content the provider generated
\* (is_ai_generated=true) with the store attached, the next request of that kind
\* within the TTL returns the same content, AI-generated, without calling the
\* provider and without incrementing the rate counter, whatever the provider
\* returned and whatever the counter holds.
C2_CacheHitWithinTTL ==
    \A u \in Requesters, kind \in {"nudge", "goals"} :
        (lastGen[kind].fresh /\ now < lastGen[kind].time + TTLOf(kind)) =>
            \A out \in CachedKindOutcomes(kind, u) :
                /\ out.resp = lastGen[kind].resp
                /\ out.ai
                /\ out.calls = 0
                /\ CounterOf(out.st, u, now) = CounterOf(redis, u, now)

\* C3: when the provider raises, or its goals text yields no valid goal, the
\* operation returns the rule-based fallback, not AI-generated, raises nothing and
\* leaves the cache entries as they were.
C3_ProviderFailureFallsBack ==
    \A attached \in BOOLEAN, faults \in FaultSets, u \in Requesters :
        /\ \A sid \in SessionIds :
             LET out == GenerateSessionSummary(redis, sessionTable, u, sid, FailingProvider,
                                               attached, faults, now)
             IN  out.calls = 1 =>
                    /\ out.resp = FallbackText("summary") /\ ~out.ai /\ ~out.raised
                    /\ CacheOf(out.st) = CacheOf(redis)
        /\ LET out == GenerateCoachingNudge(redis, u, FailingProvider, attached, faults, now)
           IN  out.calls = 1 =>
                  /\ out.resp = FallbackText("nudge") /\ ~out.ai /\ ~out.raised
                  /\ CacheOf(out.st) = CacheOf(redis)
        /\ \A provider \in Providers(GoalRaws) :
             LET out == GenerateGoalSuggestions(redis, u, provider, attached, faults, now)
             IN  (out.calls = 1 /\ (provider.raise \/ ~ParseGoalsJson(provider.out).ok)) =>
                    /\ out.resp = FallbackGoals /\ ~out.ai /\ ~out.raised
                    /\ CacheOf(out.st) = CacheOf(redis)

\* a goals request called the provider and returned the fallback
C3_Witness ==
    last.op = "goals" /\ last.calls = 1 /\ last.src = "fallback" /\ ~last.ai

\* C4: if operations of the store raise, a coaching request proceeds as if no
\* store were attached: it calls the configured provider and returns its content,
\* AI-generated, instead of raising or returning the fallback.
C4_StoreFailsOpen ==
    (last.op # "none" /\ req.attached /\ req.faults = StoreOps
        /\ req.provider /\ req.genOk /\ req.found)
    => (last.ai /\ last.src = "provider" /\ last.calls = 1)

\* C5: a summary request for a session id that does not exist or belongs to
\* another user returns {summary: "Session not found.", is_ai_generated: false}
\* and raises nothing, whatever the provider and the store.
C5_SessionNotFound ==
    \A u \in Requesters, sid \in SessionIds, provider \in Providers(Texts),
       attached \in BOOLEAN, faults \in FaultSets :
        (sid \notin DOMAIN sessionTable \/ sessionTable[sid].user_id # u) =>
            LET out == GenerateSessionSummary(redis, sessionTable, u, sid, provider,
                                              attached, faults, now)
            IN  /\ out.resp = NotFound
                /\ ~out.ai
                /\ ~out.raised

\* a summary request was answered "Session not found."
C5_Witness == last.op = "summary" /\ last.src = "notfound" /\ ~last.ai

\* C6: no fallback is ever written to the cache: every summary, nudge and goals
\* entry holds content a provider returned, every response flagged AI-generated
\* carries provider content, and every fallback or not-found response is flagged
\* not AI-generated.
C6_OnlyProviderContentCached ==
    /\ \A k \in DOMAIN redis : k[1] \in CacheNamespaces => redis[k].val.src = "provider"
    /\ last.ai => last.src = "provider"
    /\ last.src \in {"fallback", "notfound"} => ~last.ai
    /\ \A out \in RequestOutcomes(TRUE, {}) \cup RequestOutcomes(FALSE, {}) :
        /\ out.ai => out.resp.src = "provider"
        /\ out.resp.src \in {"fallback", "notfound"} => ~out.ai

\* a nudge was served from the cache after a fallback had been returned earlier
C6_Witness ==
    /\ NudgeKey("u1") \in DOMAIN redis
    /\ GoalsKey("u1") \in DOMAIN redis
    /\ SummaryKey("s1") \in DOMAIN redis
    /\ last.op = "nudge" /\ last.ai /\ last.calls = 0

-----------------------------------------------------------------------------
(* Streak *)

Today == now \div SecondsPerDay

Dates == 0 .. MaxDate

\* what a row of the date query holds: an ISO string (SQLite), a date (Postgres),
\* or neither of the two
RawDates ==
    {[type |-> ty, day |-> d] : ty \in {"str", "date"}, d \in Dates}
        \cup {[type |-> "NoneType", day |-> NoDate]}

RECURSIVE ParseDates(_)
\* the isinstance loop: strings are parsed, dates are kept, anything else is dropped
ParseDates(raw) ==
    IF raw = << >> THEN << >>
    ELSE IF Head(raw).type \in {"str", "date"}
         THEN <<Head(raw).day>> \o ParseDates(Tail(raw))
         ELSE ParseDates(Tail(raw))

RECURSIVE WalkBreakOnMismatch(_, _, _)
WalkBreakOnMismatch(dates, n, expected) ==
    IF dates = << >> THEN n
    ELSE IF Head(dates) = expected
         THEN WalkBreakOnMismatch(Tail(dates), n + 1, expected - 1)
         ELSE n

RECURSIVE Walk(_, _, _)
\* for d in dates: a match counts and moves expected one day back; an earlier date
\* ends the walk; a later date is passed over
Walk(dates, n, expected) ==
    IF dates = << >> THEN n
    ELSE IF Head(dates) = expected
         THEN Walk(Tail(dates), n + 1, expected - 1)
         ELSE IF Head(dates) < expected
              THEN n
              ELSE Walk(Tail(dates), n, expected)

CalculateStreak(raw, today) ==
    IF raw = << >> THEN 0 ELSE Walk(ParseDates(raw), 0, today)

\* _calculate_streak(raw_dates) on a list as given
CalculateStreakStep ==
    /\ streak.via = "none"
    /\ streak' = [via |-> "list", value |-> CalculateStreak(raw_dates, Today), rows |-> 0]
    /\ UNCHANGED <<now, coachVars, raw_dates, storedDates, optimalVars, answer, parseVars,
                   callVars>>

InitIdle ==
    /\ redis = << >>
    /\ sessionTable = SessionRows
    /\ last = NoRequest
    /\ req = NoInputs
    /\ lastGen = [k \in {"nudge", "goals"} |-> NoGen]
    /\ checks = 0
    /\ budget = 0

RECURSIVE ListsUpTo(_, _)
ListsUpTo(S, n) ==
    IF n = 0 THEN {<< >>}
    ELSE LET shorter == ListsUpTo(S, n - 1)
         IN  shorter \cup {Append(l, x) : l \in shorter, x \in S}

InitStreak ==
    /\ InitIdle
    /\ now \in {d * SecondsPerDay : d \in Dates}
    /\ raw_dates \in ListsUpTo(RawDates, MaxDates)
    /\ storedDates = << >>
    /\ streak = NoStreak
    /\ sessions = << >>
    /\ optimal = NoOptimal
    /\ answer = NoAnswer
    /\ response = << >>
    /\ args = NoArgs
    /\ suggestions = NoSuggestions
    /\ procs = [p \in Procs |-> Idle]
    /\ tally = NoTally

NextStreak == CalculateStreakStep

\* the streak calculator applied to every short list of query rows, on every day
SpecStreak == InitStreak /\ [][NextStreak]_vars

\* Session rows as the streak query reads them
StreakRows ==
    {[user_id |-> u, is_complete |-> c, day |-> d] :
        u \in Users, c \in BOOLEAN, d \in Dates}

RECURSIVE SortDesc(_)
SortDesc(S) ==
    IF S = {} THEN << >>
    ELSE LET m == CHOOSE x \in S : \A y \in S : y <= x
         IN  <<m>> \o SortDesc(S \ {m})

RECURSIVE FirstSeen(_, _)
\* the distinct days of rows, in the order the rows are stored
FirstSeen(rows, seen) ==
    IF rows = << >> THEN << >>
    ELSE IF Head(rows) \in seen
         THEN FirstSeen(Tail(rows), seen)
         ELSE <<Head(rows)>> \o FirstSeen(Tail(rows), seen \cup {Head(rows)})

\* the column type func.date() comes back as
Dialects == {"str", "date"}

MatchingDays(rows, u) ==
    SelectSeq([i \in 1 .. Len(rows) |-> IF rows[i].user_id = u /\ rows[i].is_complete
                                        THEN rows[i].day ELSE NoDate],
              LAMBDA d : d # NoDate)

Typed(days, dialect) == [i \in 1 .. Len(days) |-> [type |-> dialect, day |-> days[i]]]

StreakQueryUnordered(rows, u, dialect) ==
    Typed(FirstSeen(MatchingDays(rows, u), {}), dialect)

\* select date(start_time) where user_id, is_complete group by date order by date desc
StreakQuery(rows, u, dialect) ==
    Typed(SortDesc({MatchingDays(rows, u)[i] : i \in 1 .. Len(MatchingDays(rows, u))}),
          dialect)

\* create_session / update_session: one more row of some user, complete or not
StoreSession ==
    /\ Len(storedDates) < MaxStored
    /\ \E row \in StreakRows : storedDates' = Append(storedDates, row)
    /\ UNCHANGED <<now, coachVars, raw_dates, streak, optimalVars, answer, parseVars, callVars>>

\* calculate_streak(db, user_id): the query, then the walk
QueryStreak ==
    /\ \E u \in Requesters, dialect \in Dialects :
        /\ raw_dates' = StreakQuery(storedDates, u, dialect)
        /\ streak' = [via |-> "query", value |-> CalculateStreak(raw_dates', Today),
                      rows |-> Len(storedDates)]
    /\ UNCHANGED <<now, coachVars, storedDates, optimalVars, answer, parseVars, callVars>>

InitStreakQuery ==
    /\ InitIdle
    /\ now = (MaxDate - 1) * SecondsPerDay
    /\ raw_dates = << >>
    /\ storedDates = << >>
    /\ streak = NoStreak
    /\ sessions = << >>
    /\ optimal = NoOptimal
    /\ answer = NoAnswer
    /\ response = << >>
    /\ args = NoArgs
    /\ suggestions = NoSuggestions
    /\ procs = [p \in Procs |-> Idle]
    /\ tally = NoTally

NextStreakQuery == StoreSession \/ QueryStreak

\* sessions are stored in any order and the streak is computed from the table
SpecStreakQuery == InitStreakQuery /\ [][NextStreakQuery]_vars

-----------------------------------------------------------------------------
(* Properties of the streak *)

NonIncreasing(dates) == \A i \in 1 .. Len(dates) - 1 : dates[i] >= dates[i + 1]

Occurring(dates) == {dates[i] : i \in 1 .. Len(dates)}

\* today, today-1, ..., today-(k-1) all occur in S
Consecutive(S, today, k) == \A j \in 0 .. k - 1 : (today - j) \in S

LargestK(S, today) ==
    CHOOSE k \in 0 .. Cardinality(S) :
        /\ Consecutive(S, today, k)
        /\ \A m \in 0 .. Cardinality(S) : Consecutive(S, today, m) => m <= k

\* C7: for a list of dates in non-increasing order (duplicates and dates after today
\* allowed) the streak calculator returns the largest k such that today, today-1, ...,
\* today-(k-1) all occur in the list; it returns 0 for an empty list, and 0 when today
\* does not occur, even if yesterday does.
C7_StreakOfDescendingList ==
    (streak.via = "list" /\ NonIncreasing(ParseDates(raw_dates)))
        => /\ streak.value = LargestK(Occurring(ParseDates(raw_dates)), Today)
           /\ raw_dates = << >> => streak.value = 0
           /\ Today \notin Occurring(ParseDates(raw_dates)) => streak.value = 0

\* a non-increasing list with a date after today and a date twice, and a streak of two
C7_Witness ==
    /\ streak.via = "list"
    /\ NonIncreasing(ParseDates(raw_dates))
    /\ Len(ParseDates(raw_dates)) = Len(raw_dates)
    /\ \E i \in 1 .. Len(raw_dates) : raw_dates[i].day > Today
    /\ \E i \in 1 .. Len(raw_dates) - 1 : raw_dates[i].day = raw_dates[i + 1].day
    /\ streak.value = 2

Orderings(seq) ==
    {[i \in 1 .. Len(seq) |-> seq[f[i]]] : f \in Permutations(1 .. Len(seq))}

\* C8 as stated: for a deduplicated set of dates, every ordering of the list handed to
\* the streak calculator yields the streak of the descending-sorted ordering.
C8_CalculatorOrderIndependent ==
    streak.via = "query"
        => \A p \in Orderings(raw_dates) : CalculateStreak(p, Today) = streak.value

\* C8, amended: the streak computed from the stored sessions does not depend on the
\* order in which they are stored, because the query hands the calculator the distinct
\* dates in descending order; the calculator itself walks the list as given, and on
\* another ordering of these dates it returns at most that streak.
C8_QueryOrderIndependent ==
    (streak.via = "query" /\ streak.rows = Len(storedDates))
        => /\ \A p \in Orderings(storedDates), u \in Requesters, dialect \in Dialects :
                CalculateStreak(StreakQuery(p, u, dialect), Today) = streak.value
           /\ \A u \in Requesters :
                streak.value = LargestK(Occurring(MatchingDays(storedDates, u)), Today)
           /\ \A p \in Orderings(raw_dates) : CalculateStreak(p, Today) <= streak.value

\* the requester's completed sessions were stored oldest first, one day twice, and the
\* streak computed from the table is two
C8_Witness ==
    /\ streak.via = "query"
    /\ streak.rows = Len(storedDates)
    /\ streak.value = 2
    /\ \A u \in Requesters :
        LET days == MatchingDays(storedDates, u)
        IN  /\ Len(days) = MaxStored
            /\ \A i \in 1 .. Len(days) - 1 : days[i] <= days[i + 1]
            /\ \E i \in 1 .. Len(days) - 1 : days[i] = days[i + 1]

-----------------------------------------------------------------------------
(* Optimal session length *)

NoLimit == 0 - 1

\* (label_minutes, min_seconds, max_seconds), in the order of the list
Buckets ==
    << [label |-> 15, lo |-> 0,       hi |-> 20 * 60],
       [label |-> 25, lo |-> 20 * 60, hi |-> 35 * 60],
       [label |-> 45, lo |-> 35 * 60, hi |-> 52 * 60],
       [label |-> 60, lo |-> 52 * 60, hi |-> 75 * 60],
       [label |-> 90, lo |-> 75 * 60, hi |-> NoLimit] >>

\* lo <= s.duration_seconds < hi
InBucket(b, duration) == b.lo <= duration /\ (b.hi = NoLimit \/ duration < b.hi)

\* the stored durations all divide Scale, so that Scale times a focus ratio is an integer
Scale == 5 * 3600

Row(u, c, duration, focused) ==
    [user_id |-> u, is_complete |-> c, duration_seconds |-> duration,
     focused_seconds |-> focused]

\* the rows that may be stored: the requester's completed sessions in the buckets 15,
\* 25 (from its lower boundary), 60 and 90 (on its lower boundary), another user's
\* session, a session that is not complete, and a session of duration 0
SessionKinds ==
    {Row("u1", TRUE, 600, 0), Row("u1", TRUE, 600, 300), Row("u1", TRUE, 600, 600),
     Row("u1", TRUE, 1200, 400), Row("u1", TRUE, 1500, 1500),
     Row("u1", TRUE, 3600, 1800), Row("u1", TRUE, 4500, 4500),
     Row("u2", TRUE, 1500, 1500), Row("u1", FALSE, 1500, 1500), Row("u1", TRUE, 0, 0)}

\* Scale * (s.focused_seconds / s.duration_seconds)
Ratio(s) ==
    IF s.duration_seconds > 0
    THEN s.focused_seconds * (Scale \div s.duration_seconds)
    ELSE 0

\* where user_id == user_id, is_complete == True, duration_seconds > 0
Selected(table, u) ==
    {s \in DOMAIN table : s.user_id = u /\ s.is_complete /\ s.duration_seconds > 0}

RECURSIVE Gather(_, _, _)
\* bucket_data[label] as the sum (times Scale) and the number of its ratios
Gather(table, rows, b) ==
    IF rows = {} THEN [sum |-> 0, len |-> 0]
    ELSE LET s == CHOOSE x \in rows : TRUE
             rest == Gather(table, rows \ {s}, b)
         IN  IF InBucket(b, s.duration_seconds)
             THEN [sum |-> rest.sum + table[s] * Ratio(s), len |-> rest.len + table[s]]
             ELSE rest

BucketData(table, u) == [i \in DOMAIN Buckets |-> Gather(table, Selected(table, u), Buckets[i])]

\* best_ratio is sum / (len * Scale)
NoBest == [label |-> DefaultLabel, sum |-> 0, len |-> 1, count |-> 0]

QualifiesAny(n) == n >= 1

Qualifies(n) == n >= MinSamples

\* sum / len > best.sum / best.len
Higher(data, best) == data.sum * best.len > best.sum * data.len

RECURSIVE BestQualifying(_, _, _)
\* the first loop: buckets with enough samples, a strictly higher average replaces best
BestQualifying(data, i, best) ==
    IF i > Len(Buckets) THEN best
    ELSE IF Qualifies(data[i].len) /\ Higher(data[i], best)
         THEN BestQualifying(data, i + 1,
                  [label |-> Buckets[i].label, sum |-> data[i].sum, len |-> data[i].len,
                   count |-> data[i].len])
         ELSE BestQualifying(data, i + 1, best)

MorePopulatedFirst(n, best_count) == n > 0 /\ best_count = 0

MorePopulated(n, best_count) == n > best_count

RECURSIVE MostPopulated(_, _, _)
\* the second loop: a bucket with strictly more sessions replaces best
MostPopulated(data, i, best) ==
    IF i > Len(Buckets) THEN best
    ELSE IF MorePopulated(data[i].len, best.count)
         THEN MostPopulated(data, i + 1,
                  [label |-> Buckets[i].label, sum |-> data[i].sum, len |-> data[i].len,
                   count |-> data[i].len])
         ELSE MostPopulated(data, i + 1, best)

\* num / den to the nearest integer, a tie to the even one
RoundHalfEven(num, den) ==
    LET q == num \div den
        r == num % den
    IN  IF 2 * r < den THEN q
        ELSE IF 2 * r > den THEN q + 1
        ELSE IF q % 2 = 0 THEN q ELSE q + 1

\* round(best_ratio, 3), in thousandths
Round3(sum, len) == RoundHalfEven(sum * 1000, len * Scale)

OptimalSessionLength(table, u) ==
    LET data == BucketData(table, u)
        first == BestQualifying(data, 1, NoBest)
        best == IF first.count = 0 THEN MostPopulated(data, 1, first) ELSE first
    IN  [recommended_minutes |-> best.label,
         avg_focus_ratio |-> Round3(best.sum, best.len),
         sample_size |-> best.count]

SessionCount(table) ==
    LET RECURSIVE Count(_)
        Count(rows) == IF rows = {} THEN 0
                       ELSE LET s == CHOOSE x \in rows : TRUE
                            IN  table[s] + Count(rows \ {s})
    IN  Count(DOMAIN table)

\* create_session: one more row;  the answer of an earlier request is gone
AddSession ==
    /\ SessionCount(sessions) < MaxSessions
    /\ \E s \in SessionKinds :
        sessions' = IF s \in DOMAIN sessions
                    THEN [sessions EXCEPT ![s] = @ + 1]
                    ELSE [x \in DOMAIN sessions \cup {s} |->
                            IF x = s THEN 1 ELSE sessions[x]]
    /\ optimal' = NoOptimal
    /\ UNCHANGED <<now, coachVars, streakVars, answer, parseVars, callVars>>

GetOptimalSessionLength ==
    /\ \E u \in Requesters : optimal' = OptimalSessionLength(sessions, u)
    /\ UNCHANGED <<now, coachVars, streakVars, sessions, answer, parseVars, callVars>>

InitOptimal ==
    /\ InitIdle
    /\ now = 0
    /\ InitOther

NextOptimal == AddSession \/ GetOptimalSessionLength

\* sessions are stored and the optimal session length is asked for
SpecOptimal == InitOptimal /\ [][NextOptimal]_vars

-----------------------------------------------------------------------------
(* Properties of the optimal session length *)

Answered == optimal # NoOptimal

\* sum and number of the focus ratios of the requester's sessions, bucket by bucket
RequesterData == BucketData(sessions, CHOOSE u \in Requesters : TRUE)

\* the mean ratio of bucket i is not below that of bucket j
MeanAtLeast(data, i, j) == data[i].sum * data[j].len >= data[j].sum * data[i].len

\* C9: when some duration bucket holds 3 or more of the user's completed sessions of
\* duration > 0, the recommended bucket holds at least 3 sessions, its mean focus ratio
\* is the highest among the buckets holding at least 3, and sample_size is its count.
C9_BestQualifyingBucket ==
    LET data == RequesterData
    IN  (Answered /\ \E i \in DOMAIN Buckets : data[i].len >= 3)
            => \E i \in DOMAIN Buckets :
                /\ optimal.recommended_minutes = Buckets[i].label
                /\ data[i].len >= 3
                /\ \A j \in DOMAIN Buckets : data[j].len >= 3 => MeanAtLeast(data, i, j)
                /\ optimal.sample_size = data[i].len

\* bucket 15 holds four sessions of mean above 0, bucket 25 holds three with a higher
\* mean, and bucket 25 is recommended
C9_Witness ==
    LET data == RequesterData
    IN  /\ Answered
        /\ data[1].len = 4
        /\ data[1].sum > 0
        /\ data[2].len = 3
        /\ optimal.recommended_minutes = 25
        /\ optimal.sample_size = 3

\* C10: when no duration bucket holds 3 or more sessions, the recommended bucket is one
\* with the most sessions, reported with its mean ratio and its count; when the user has
\* no completed session of duration > 0 the answer is 25 minutes, ratio 0.0, 0 samples.
C10_FallbackToMostPopulated ==
    LET data == RequesterData
    IN  (Answered /\ \A i \in DOMAIN Buckets : data[i].len < 3)
            => IF \A i \in DOMAIN Buckets : data[i].len = 0
               THEN optimal = [recommended_minutes |-> 25, avg_focus_ratio |-> 0,
                               sample_size |-> 0]
               ELSE \E i \in DOMAIN Buckets :
                    /\ optimal.recommended_minutes = Buckets[i].label
                    /\ \A j \in DOMAIN Buckets : data[j].len <= data[i].len
                    /\ optimal.sample_size = data[i].len
                    /\ optimal.avg_focus_ratio = Round3(data[i].sum, data[i].len)

\* no bucket holds three sessions: bucket 15 holds one, bucket 60 holds two and is
\* recommended with ratio 0.5, while rows that are not selected are stored as well
C10_Witness ==
    LET data == RequesterData
    IN  /\ Answered
        /\ data[1].len = 1
        /\ data[4].len = 2
        /\ SessionCount(sessions) > 3
        /\ optimal = [recommended_minutes |-> 60, avg_focus_ratio |-> 500,
                      sample_size |-> 2]

-----------------------------------------------------------------------------
(* Sessions with their events, as the insights, stats and coaching helpers read them *)

\* weekday() of day 0 (Monday = 0)
EpochWeekday == 3

Hour(t) == (t % SecondsPerDay) \div 3600

Weekday(t) == (t \div SecondsPerDay + EpochWeekday) % 7

DateOf(t) == t \div SecondsPerDay

Days(n) == n * SecondsPerDay

\* the instant of the requests: day 40, 10:00
RequestTime == Days(40) + 10 * 3600

\* app_name and duration_seconds of an event are nullable
NoApp == "NULL"
NoDuration == 0 - 1

AppNames == <<"a01", "a02", "a03", "a04", "a05", "a06", "a07", "a08", "a09", "a10", "a11">>

Event(type, app, duration) ==
    [event_type |-> type, app_name |-> app, duration_seconds |-> duration]

\* the events attached to a session: none; a mix of distractions (one without duration,
\* one without app_name) and an event of another type; three distractions; one
\* distraction for each of eleven apps
EventLists ==
    [none |-> << >>,
     mixed |-> << Event("DISTRACTION", "a01", 30), Event("DISTRACTION", "a02", 60),
                  Event("DISTRACTION", "a01", NoDuration), Event("IDLE", "a03", 10),
                  Event("DISTRACTION", NoApp, 5) >>,
     three |-> << Event("DISTRACTION", "a02", 45), Event("DISTRACTION", "a02", 15),
                  Event("DISTRACTION", "a03", 20) >>,
     eleven |-> [i \in 1 .. Len(AppNames) |-> Event("DISTRACTION", AppNames[i], 1)]]

\* a row of the Session table;  events: which of the event lists is attached to it
SessionRow(u, c, start, duration, focused, distractions, ev) ==
    [user_id |-> u, is_complete |-> c, start_time |-> start,
     duration_seconds |-> duration, focused_seconds |-> focused,
     distraction_count |-> distractions, events |-> ev]

\* the SessionEvent rows whose session_id is that of session s
EventsOf(s) == EventLists[s.events]

\* the rows that may be stored, by start time relative to the request:
\*   within the last hour (two rows of one hour and weekday), one in the future,
\*   yesterday with duration 0, two days ago, exactly 7 days ago and one second
\*   earlier, exactly 14 days ago and one second earlier, 30 days and one second ago;
\*   a row that is not complete;  a row of another user
InsightRows(t) ==
    {SessionRow("u1", TRUE, t - 3600, 1500, 1200, 2, "mixed"),
     SessionRow("u1", TRUE, t - 1800, 600, 100, 0, "none"),
     SessionRow("u1", TRUE, t + 3600, 1500, 700, 1, "none"),
     SessionRow("u1", TRUE, t - Days(1), 0, 0, 0, "none"),
     SessionRow("u1", TRUE, t - Days(2), 3600, 1800, 11, "eleven"),
     SessionRow("u1", TRUE, t - Days(7), 3600, 1800, 3, "none"),
     SessionRow("u1", TRUE, t - Days(7) - 1, 1500, 1500, 5, "three"),
     SessionRow("u1", TRUE, t - Days(14), 1500, 4200, 1, "none"),
     SessionRow("u1", TRUE, t - Days(14) - 1, 1500, 900, 4, "none"),
     SessionRow("u1", TRUE, t - Days(30) - 1, 1500, 1500, 2, "three"),
     SessionRow("u1", FALSE, t - 3600, 1500, 1500, 7, "mixed"),
     SessionRow("u2", TRUE, t - 3600, 1500, 1500, 7, "mixed")}

\* create_session and append_events_batch: one more row with its events;  the answer of
\* an earlier request is gone
CreateSession ==
    /\ SessionCount(sessions) < MaxRows
    /\ \E s \in InsightRows(now) :
        sessions' = IF s \in DOMAIN sessions
                    THEN [sessions EXCEPT ![s] = @ + 1]
                    ELSE [x \in DOMAIN sessions \cup {s} |->
                            IF x = s THEN 1 ELSE sessions[x]]
    /\ answer' = NoAnswer
    /\ UNCHANGED <<now, coachVars, streakVars, optimal, parseVars, callVars>>

InitInsights ==
    /\ InitIdle
    /\ now = RequestTime
    /\ InitOther

\* the rows of a table, each as often as it is stored, in some order
RECURSIVE RowList(_)
RowList(table) ==
    IF DOMAIN table = {} THEN << >>
    ELSE LET s == CHOOSE x \in DOMAIN table : TRUE
             rest == [x \in DOMAIN table \ {s} |-> table[x]]
         IN  [i \in 1 .. table[s] |-> s] \o RowList(rest)

RECURSIVE Sum(_)
\* sum(numbers)
Sum(numbers) == IF numbers = << >> THEN 0 ELSE Head(numbers) + Sum(Tail(numbers))

\* s.focused_seconds for s in list
FocusedSeconds(list) == [i \in 1 .. Len(list) |-> list[i].focused_seconds]

\* s.duration_seconds for s in list
DurationSeconds(list) == [i \in 1 .. Len(list) |-> list[i].duration_seconds]

\* s.distraction_count for s in list
DistractionCounts(list) == [i \in 1 .. Len(list) |-> list[i].distraction_count]

-----------------------------------------------------------------------------
(* Divisions of the coaching helpers *)

\* num / den: ZeroDivisionError is raised when den is 0
Quotient(num, den) == [raised |-> den = 0, num |-> num, den |-> den]

\* the literal 0 or 0.0 of an else branch
Zero == Quotient(0, 1)

\* round(num / den, 1), in tenths
Round1(num, den) == RoundHalfEven(num * 10, den)

Max(a, b) == IF a >= b THEN a ELSE b

\* the rows of user u in the table
RowsOf(table, u) == SelectSeq(RowList(table), LAMBDA s : s.user_id = u)

SessionFocusRatioUnguarded(s) == Quotient(s.focused_seconds, s.duration_seconds)

\* _get_session_data: focus_ratio = focused_seconds / duration_seconds
\*                                  if duration_seconds > 0 else 0.0
SessionFocusRatio(s) ==
    IF s.duration_seconds > 0
    THEN Quotient(s.focused_seconds, s.duration_seconds)
    ELSE Zero

\* _fallback_session_summary on round(seconds / 60, 1) minutes, in tenths:
\* focus_ratio = focused_min / duration_min if duration_min > 0 else 0
FallbackFocusRatio(s) ==
    LET duration_min == Round1(s.duration_seconds, 60)
        focused_min == Round1(s.focused_seconds, 60)
    IN  IF duration_min > 0 THEN Quotient(focused_min, duration_min) ELSE Zero

\* _get_session_data followed by _fallback_session_summary
SessionData(s) ==
    LET ratio == SessionFocusRatio(s)
        fallback == FallbackFocusRatio(s)
    IN  [op |-> "session_data",
         raised |-> ratio.raised \/ fallback.raised,
         value |-> [duration_seconds |-> s.duration_seconds,
                    focus_ratio |-> ratio, fallback_focus_ratio |-> fallback]]

\* where user_id, is_complete, start_time >= now - 14 days
RecentSessions(table, u, t) ==
    SelectSeq(RowsOf(table, u), LAMBDA s : s.is_complete /\ s.start_time >= t - Days(14))

\* days_span = max((now - start).days, 1)
DaysSpan == Max(14, 1)

\* _get_trend_data: the averages of the last 14 days
TrendData(table, u, t) ==
    LET recent == RecentSessions(table, u, t)
        total_focused == Sum(FocusedSeconds(recent))
        total_duration == Sum(DurationSeconds(recent))
        avg_focus_ratio == IF total_duration > 0
                           THEN Quotient(total_focused, total_duration)
                           ELSE Zero
        daily == Quotient(total_focused, DaysSpan * 60)
        per_day == Quotient(Len(recent), DaysSpan)
    IN  IF recent = << >>
        THEN [op |-> "trend_data", raised |-> FALSE,
              value |-> [sessions |-> 0, avg_daily_focus_min |-> 0,
                         avg_sessions_per_day |-> 0, avg_focus_ratio |-> Zero]]
        ELSE [op |-> "trend_data",
              raised |-> avg_focus_ratio.raised \/ daily.raised \/ per_day.raised,
              value |-> [sessions |-> Len(recent),
                         avg_daily_focus_min |-> Round1(total_focused, DaysSpan * 60),
                         avg_sessions_per_day |-> Round1(Len(recent), DaysSpan),
                         avg_focus_ratio |-> avg_focus_ratio]]

\* generate_session_summary reads the data of one session of the requester
SessionDataStep ==
    /\ \E u \in Requesters, s \in DOMAIN sessions :
        /\ s.user_id = u
        /\ answer' = SessionData(s)
    /\ UNCHANGED <<now, coachVars, streakVars, optimalVars, parseVars, callVars>>

\* generate_goal_suggestions reads the trend data of the requester
TrendDataStep ==
    /\ \E u \in Requesters : answer' = TrendData(sessions, u, now)
    /\ UNCHANGED <<now, coachVars, streakVars, optimalVars, parseVars, callVars>>

\* the divisors of get_optimal_session_length: the duration of each session whose
\* ratio is computed, and the length of each list whose average is computed
OptimalDivisors(table, u) ==
    LET data == BucketData(table, u)
        first == BestQualifying(data, 1, NoBest)
    IN  {s.duration_seconds : s \in {x \in Selected(table, u) : x.duration_seconds > 0}}
            \cup {data[i].len : i \in {j \in DOMAIN Buckets : Qualifies(data[j].len)}}
            \cup IF first.count = 0
                 THEN {data[i].len : i \in {j \in DOMAIN Buckets : data[j].len > 0}}
                 ELSE {}

OptimalAnswer(table, u) ==
    [op |-> "optimal", raised |-> 0 \in OptimalDivisors(table, u),
     value |-> OptimalSessionLength(table, u)]

\* get_insights asks for the optimal session length of the requester
OptimalStep ==
    /\ \E u \in Requesters : answer' = OptimalAnswer(sessions, u)
    /\ UNCHANGED <<now, coachVars, streakVars, optimalVars, parseVars, callVars>>

-----------------------------------------------------------------------------
(* Smart goals *)

InWindowClosed(s, start, end) == s.start_time >= start /\ s.start_time <= end

\* Session.start_time >= start, Session.start_time < end
InWindow(s, start, end) == s.start_time >= start /\ s.start_time < end

WeekStatsAnySession(table, u, start, end) ==
    LET rows == SelectSeq(RowsOf(table, u), LAMBDA s : InWindow(s, start, end))
    IN  [focused_seconds |-> Sum(FocusedSeconds(rows)),
         session_count |-> Len(rows),
         distraction_count |-> Sum(DistractionCounts(rows))]

\* _week_stats(start, end): coalesce(sum(focused_seconds), 0), count(id),
\* coalesce(sum(distraction_count), 0) over the user's completed sessions of the window
WeekStats(table, u, start, end) ==
    LET rows == SelectSeq(RowsOf(table, u),
                          LAMBDA s : s.is_complete /\ InWindow(s, start, end))
    IN  [focused_seconds |-> Sum(FocusedSeconds(rows)),
         session_count |-> Len(rows),
         distraction_count |-> Sum(DistractionCounts(rows))]

\* the rows as the streak query reads them: date(start_time)
DatedRows(table) ==
    LET rows == RowList(table)
    IN  [i \in 1 .. Len(rows) |->
            [user_id |-> rows[i].user_id, is_complete |-> rows[i].is_complete,
             day |-> DateOf(rows[i].start_time)]]

\* the streak query followed by _calculate_streak
StreakOf(table, u, t, dialect) ==
    CalculateStreak(StreakQuery(DatedRows(table), u, dialect), DateOf(t))

\* a description: the text with its number left out, and the number (0 when none)
Description(text, n) == [text |-> text, n |-> n]

\* a SmartGoal; target_value and current_value are floats, kept in tenths
SmartGoal(type, target, current, description) ==
    [goal_type |-> type, target_value |-> target, current_value |-> current,
     description |-> description]

\* round(previous["focused_seconds"] / 7 / 60 * 1.1, 0) minutes, else 60.0
FocusTarget(previous) ==
    IF previous.focused_seconds > 0
    THEN RoundHalfEven(previous.focused_seconds * 11, 7 * 60 * 10)
    ELSE 60

\* max(previous["session_count"] + 1, current_sessions), else 5
SessionTarget(previous, current) ==
    IF previous.session_count > 0
    THEN Max(previous.session_count + 1, current.session_count)
    ELSE 5

DistractionTargetFloor(previous) ==
    IF previous.distraction_count > 0
    THEN Max(0, (previous.distraction_count * 8) \div 10)
    ELSE 0

\* max(0, round(previous["distraction_count"] * 0.8)), else 0
DistractionTarget(previous) ==
    IF previous.distraction_count > 0
    THEN Max(0, RoundHalfEven(previous.distraction_count * 8, 10))
    ELSE 0

\* get_smart_goals(db, user_id): four goals in a fixed order
SmartGoals(table, u, t, dialect) ==
    LET current == WeekStats(table, u, t - Days(7), t)
        previous == WeekStats(table, u, t - Days(14), t - Days(7))
        days == StreakOf(table, u, t, dialect)
        target_focus == FocusTarget(previous)
        target_sessions == SessionTarget(previous, current)
        target_distractions == DistractionTarget(previous)
        target_streak == Max(days + 1, 3)
    IN  << SmartGoal("daily_focus", target_focus * 10,
                     Round1(current.focused_seconds, 7 * 60),
                     Description("Focus for N minutes daily", target_focus)),
           SmartGoal("session_count", target_sessions * 10, current.session_count * 10,
                     Description("Complete N focus sessions this week", target_sessions)),
           SmartGoal("distraction_reduction", target_distractions * 10,
                     current.distraction_count * 10,
                     IF target_distractions > 0
                     THEN Description("Keep distractions below N this week",
                                      target_distractions)
                     ELSE Description("Stay distraction-free this week", 0)),
           SmartGoal("streak", target_streak * 10, days * 10,
                     Description("Build a N-day focus streak", target_streak)) >>

\* GET /insights/goals
SmartGoalsStep ==
    /\ \E u \in Requesters, dialect \in Dialects :
        answer' = [op |-> "goals", raised |-> FALSE,
                   value |-> SmartGoals(sessions, u, now, dialect)]
    /\ UNCHANGED <<now, coachVars, streakVars, optimalVars, parseVars, callVars>>

-----------------------------------------------------------------------------
(* Distraction patterns *)

RECURSIVE Flatten(_)
\* the events of the sessions of a list, session after session
Flatten(rows) ==
    IF rows = << >> THEN << >> ELSE EventsOf(Head(rows)) \o Flatten(Tail(rows))

PatternEventAnyType(e) == e.app_name # NoApp

\* SessionEvent.event_type == "DISTRACTION", SessionEvent.app_name.isnot(None)
PatternEvent(e) == e.event_type = "DISTRACTION" /\ e.app_name # NoApp

\* where Session.user_id == user_id, Session.start_time >= start
SessionsSince(table, u, start) ==
    SelectSeq(RowsOf(table, u), LAMBDA s : s.start_time >= start)

\* join(Session) with the filters on the event: event_type and app_name
JoinedEvents(table, u, start) ==
    SelectSeq(Flatten(SessionsSince(table, u, start)), PatternEvent)

\* sum(duration_seconds) skips NULL; coalesce(sum, 0)
DurationOrZero(e) == IF e.duration_seconds = NoDuration THEN 0 ELSE e.duration_seconds

\* group_by(app_name): count(id) and coalesce(sum(duration_seconds), 0)
PatternGroup(events, a) ==
    LET group == SelectSeq(events, LAMBDA e : e.app_name = a)
    IN  [app_name |-> a, count |-> Len(group),
         total_duration_seconds |->
            Sum([i \in 1 .. Len(group) |-> DurationOrZero(group[i])])]

PatternGroups(events) ==
    {PatternGroup(events, a) : a \in {events[i].app_name : i \in 1 .. Len(events)}}

AppIndex(a) == CHOOSE i \in 1 .. Len(AppNames) : AppNames[i] = a

\* groups of equal count come in an order the database chooses: by name, up or down
TieOrders == {"ascending", "descending"}

Before(g, h, ties) ==
    \/ g.count > h.count
    \/ /\ g.count = h.count
       /\ IF ties = "ascending"
          THEN AppIndex(g.app_name) <= AppIndex(h.app_name)
          ELSE AppIndex(g.app_name) >= AppIndex(h.app_name)

RECURSIVE OrderByCountDesc(_, _)
\* order_by(func.count(SessionEvent.id).desc())
OrderByCountDesc(groups, ties) ==
    IF groups = {} THEN << >>
    ELSE LET g == CHOOSE x \in groups : \A y \in groups : Before(x, y, ties)
         IN  <<g>> \o OrderByCountDesc(groups \ {g}, ties)

\* .limit(10)
PatternLimit == 10

Limit(rows, n) == SubSeq(rows, 1, IF Len(rows) < n THEN Len(rows) ELSE n)

\* get_distraction_patterns(db, user_id, days)
DistractionPatterns(table, u, t, days, ties) ==
    Limit(OrderByCountDesc(PatternGroups(JoinedEvents(table, u, t - Days(days))), ties),
          PatternLimit)

\* days: int = Query(default=30, ge=7, le=90)
WindowDays == {7, 30}

\* get_insights asks for the top distractors
DistractionPatternsStep ==
    /\ \E u \in Requesters, days \in WindowDays, ties \in TieOrders :
        answer' = [op |-> "patterns", raised |-> FALSE,
                   value |-> [days |-> days,
                              rows |-> DistractionPatterns(sessions, u, now, days, ties)]]
    /\ UNCHANGED <<now, coachVars, streakVars, optimalVars, parseVars, callVars>>

-----------------------------------------------------------------------------
(* Heatmap, trend and stats *)

\* where user_id, is_complete == True, start_time >= start
CompletedSince(table, u, start) ==
    SelectSeq(RowsOf(table, u), LAMBDA s : s.is_complete /\ s.start_time >= start)

GridKeySundayFirst(s) == <<Hour(s.start_time), (Weekday(s.start_time) + 1) % 7>>

\* (hour, dow) of a session: st.hour and st.weekday() of its start time
GridKey(s) == <<Hour(s.start_time), Weekday(s.start_time)>>

KeyBefore(k, l) == k[1] < l[1] \/ (k[1] = l[1] /\ k[2] <= l[2])

RECURSIVE SortedKeys(_)
\* sorted(grid.items()): by hour, then by day of week
SortedKeys(keys) ==
    IF keys = {} THEN << >>
    ELSE LET k == CHOOSE x \in keys : \A y \in keys : KeyBefore(x, y)
         IN  <<k>> \o SortedKeys(keys \ {k})

\* get_focus_heatmap(db, user_id, days): focused_minutes in tenths
FocusHeatmap(table, u, t, days) ==
    LET rows == CompletedSince(table, u, t - Days(days))
        keys == SortedKeys({GridKey(rows[i]) : i \in 1 .. Len(rows)})
    IN  [j \in 1 .. Len(keys) |->
            [hour |-> keys[j][1], day_of_week |-> keys[j][2],
             focused_minutes |->
                Round1(Sum(FocusedSeconds(SelectSeq(rows, LAMBDA s : GridKey(s) = keys[j]))),
                       60)]]

RECURSIVE Ascending(_)
\* order_by(date_expr)
Ascending(S) ==
    IF S = {} THEN << >>
    ELSE LET m == CHOOSE x \in S : \A y \in S : x <= y
         IN  <<m>> \o Ascending(S \ {m})

\* get_focus_trend(db, user_id, days): one row per date, focused_minutes in tenths
FocusTrend(table, u, t, days) ==
    LET rows == CompletedSince(table, u, t - Days(days))
        dates == Ascending({DateOf(rows[i].start_time) : i \in 1 .. Len(rows)})
    IN  [j \in 1 .. Len(dates) |->
            LET day == SelectSeq(rows, LAMBDA s : DateOf(s.start_time) = dates[j])
            IN  [date |-> dates[j],
                 focused_minutes |-> Round1(Sum(FocusedSeconds(day)), 60),
                 session_count |-> Len(day),
                 distraction_count |-> Sum(DistractionCounts(day))]]

Periods == {"daily", "weekly", "monthly", "yearly"}

\* the start of the period of get_stats
PeriodStart(period, t) ==
    CASE period = "daily" -> t - (t % SecondsPerDay)
      [] period = "weekly" -> t - Days(7)
      [] period = "monthly" -> t - Days(30)
      [] OTHER -> t - Days(7)

\* get_stats(db, user_id, period)
Stats(table, u, t, period, dialect) ==
    LET rows == CompletedSince(table, u, PeriodStart(period, t))
        dates == Ascending({DateOf(rows[i].start_time) : i \in 1 .. Len(rows)})
    IN  [period |-> period,
         focused_seconds |-> Sum(FocusedSeconds(rows)),
         total_seconds |-> Sum(DurationSeconds(rows)),
         session_count |-> Len(rows),
         distraction_count |-> Sum(DistractionCounts(rows)),
         current_streak |-> StreakOf(table, u, t, dialect),
         daily_breakdown |->
            [j \in 1 .. Len(dates) |->
                LET day == SelectSeq(rows, LAMBDA s : DateOf(s.start_time) = dates[j])
                IN  [date |-> dates[j],
                     focused_seconds |-> Sum(FocusedSeconds(day)),
                     session_count |-> Len(day)]]]

\* GET /insights/heatmap
FocusHeatmapStep ==
    /\ \E u \in Requesters, days \in WindowDays :
        answer' = [op |-> "heatmap", raised |-> FALSE,
                   value |-> [days |-> days,
                              rows |-> FocusHeatmap(sessions, u, now, days)]]
    /\ UNCHANGED <<now, coachVars, streakVars, optimalVars, parseVars, callVars>>

\* get_insights asks for the trend
FocusTrendStep ==
    /\ \E u \in Requesters, days \in WindowDays :
        answer' = [op |-> "trend", raised |-> FALSE,
                   value |-> [days |-> days,
                              rows |-> FocusTrend(sessions, u, now, days)]]
    /\ UNCHANGED <<now, coachVars, streakVars, optimalVars, parseVars, callVars>>

\* the rows that were read are deleted
StatsStepClearing ==
    /\ \E u \in Requesters, period \in Periods, dialect \in Dialects :
        answer' = [op |-> "stats", raised |-> FALSE,
                   value |-> Stats(sessions, u, now, period, dialect)]
    /\ sessions' = << >>
    /\ UNCHANGED <<now, coachVars, streakVars, optimal, parseVars, callVars>>

\* GET /stats
StatsStep ==
    /\ \E u \in Requesters, period \in Periods, dialect \in Dialects :
        answer' = [op |-> "stats", raised |-> FALSE,
                   value |-> Stats(sessions, u, now, period, dialect)]
    /\ UNCHANGED <<now, coachVars, streakVars, optimalVars, parseVars, callVars>>

-----------------------------------------------------------------------------
(* The insights functions together *)

NextInsights ==
    \/ CreateSession
    \/ SessionDataStep
    \/ TrendDataStep
    \/ OptimalStep
    \/ SmartGoalsStep
    \/ DistractionPatternsStep
    \/ FocusHeatmapStep
    \/ FocusTrendStep
    \/ StatsStep

\* sessions are stored and the insights, stats and coaching helpers are asked
SpecInsights == InitInsights /\ [][NextInsights]_vars

-----------------------------------------------------------------------------
(* Goal parsing on the texts a provider may return *)

\* the longest response, in tokens
MaxTokens == 5

\* brackets, commas, prose or a markdown fence, and JSON objects: with the keys goal,
\* target, reasoning ("G1"), with a numeric target ("Gn"), without reasoning ("B")
Tokens == {"[", "]", ",", "P", "G1", "Gn", "B"}

InitGoals ==
    /\ InitIdle
    /\ now = 0
    /\ InitTables
    /\ response \in ListsUpTo(Tokens, MaxTokens)
    /\ args = NoArgs

\* _parse_goals_json(raw) on the response
ParseGoalsJsonStep ==
    /\ suggestions.op = "none"
    /\ suggestions' = [NoSuggestions EXCEPT !.op = "parse",
                                            !.parsed = ParseGoalsJson(response)]
    /\ UNCHANGED <<now, coachVars, streakVars, optimalVars, answer, response, callVars>>

\* generate_goal_suggestions with no store attached and a provider returning the
\* response
GoalSuggestionsStep ==
    /\ suggestions.op = "none"
    /\ \E u \in Requesters :
        LET provider == [configured |-> TRUE, raise |-> FALSE, out |-> response]
            out == GenerateGoalSuggestions(redis, u, provider, FALSE, {}, now)
        IN  /\ suggestions' = [op |-> "request", parsed |-> ParseGoalsJson(response),
                               resp |-> out.resp, ai |-> out.ai]
            /\ redis' = out.st
    /\ UNCHANGED <<now, sessionTable, last, req, lastGen, checks, budget, streakVars,
                   optimalVars, answer, response, callVars>>

NextGoals == ParseGoalsJsonStep \/ GoalSuggestionsStep

\* every response text is parsed, and answered to a goals request
SpecGoals == InitGoals /\ [][NextGoals]_vars

-----------------------------------------------------------------------------
(* The rate-limit check of several users over the days *)

\* the number of checks explored for a user while another user has made more
MaxOtherChecks == 2

\* _check_rate_limit(redis_client, user_id) of some user;  the model follows a user up
\* to one check beyond the limit, and the others up to MaxOtherChecks at that time
RateCheckStep ==
    /\ \E u \in Users :
        /\ CounterOf(redis, u, now) <= RateLimit
        /\ \/ CounterOf(redis, u, now) < MaxOtherChecks
           \/ \A v \in Users \ {u} : CounterOf(redis, v, now) <= MaxOtherChecks
        /\ LET rl == CheckRateLimit(redis, u, now, {})
           IN  /\ redis' = rl.st
               /\ answer' = [op |-> "rate", raised |-> rl.raised,
                             value |-> [user |-> u, ok |-> rl.ok, at |-> now]]
    /\ UNCHANGED <<now, sessionTable, last, req, lastGen, checks, budget, streakVars,
                   optimalVars, parseVars, callVars>>

\* time passes: later the same day, or to the next day
RateTick == Advance(TimePoints, 0)

InitRate ==
    /\ InitIdle
    /\ now = 0
    /\ InitOther

NextRate == RateCheckStep \/ RateTick

\* the users' requests reach the rate-limit check, day after day
SpecRate == InitRate /\ [][NextRate]_vars

-----------------------------------------------------------------------------
(* create_provider *)

\* settings.AI_PROVIDER: empty, the two known names, a name in another case, another name
ProviderNames == {"", "openai", "anthropic", "OpenAI", "gemini"}

\* settings.OPENAI_API_KEY, settings.ANTHROPIC_API_KEY: empty or a key
ApiKeys == {"", "sk-a", "sk-b"}

\* settings.AI_MODEL: empty or a model name
ModelNames == {"", "gpt-4o", "custom"}

Settings ==
    [AI_PROVIDER : ProviderNames, OPENAI_API_KEY : ApiKeys, ANTHROPIC_API_KEY : ApiKeys,
     AI_MODEL : ModelNames]

\* OpenAIProvider(api_key, model), AnthropicProvider(api_key, model)
Provider(class, api_key, model) == [class |-> class, api_key |-> api_key, model |-> model]

\* return None
NoneProvider == Provider("NoneType", "", "")

\* x or default
Or(x, default) == IF x # "" THEN x ELSE default

\* a provider is made of any key that is set
CreateProviderOfAnyKey(settings) ==
    IF settings.AI_PROVIDER = "openai"
        /\ (settings.OPENAI_API_KEY # "" \/ settings.ANTHROPIC_API_KEY # "")
    THEN Provider("OpenAIProvider", Or(settings.OPENAI_API_KEY, settings.ANTHROPIC_API_KEY),
                  Or(settings.AI_MODEL, "gpt-4o-mini"))
    ELSE IF settings.AI_PROVIDER = "anthropic"
            /\ (settings.OPENAI_API_KEY # "" \/ settings.ANTHROPIC_API_KEY # "")
         THEN Provider("AnthropicProvider",
                       Or(settings.ANTHROPIC_API_KEY, settings.OPENAI_API_KEY),
                       Or(settings.AI_MODEL, "claude-sonnet-4-6"))
         ELSE NoneProvider

\* create_provider(settings)
CreateProvider(settings) ==
    IF settings.AI_PROVIDER = "openai" /\ settings.OPENAI_API_KEY # ""
    THEN Provider("OpenAIProvider", settings.OPENAI_API_KEY,
                  Or(settings.AI_MODEL, "gpt-4o-mini"))
    ELSE IF settings.AI_PROVIDER = "anthropic" /\ settings.ANTHROPIC_API_KEY # ""
         THEN Provider("AnthropicProvider", settings.ANTHROPIC_API_KEY,
                       Or(settings.AI_MODEL, "claude-sonnet-4-6"))
         ELSE NoneProvider

InitProvider ==
    /\ InitIdle
    /\ now = 0
    /\ InitTables
    /\ response = << >>
    /\ args \in Settings

\* the application creates its provider from the settings
CreateProviderStep ==
    /\ answer = NoAnswer
    /\ answer' = [op |-> "create_provider", raised |-> FALSE, value |-> CreateProvider(args)]
    /\ UNCHANGED <<now, coachVars, streakVars, optimalVars, parseVars, callVars>>

NextProvider == CreateProviderStep

\* create_provider on every combination of settings
SpecProvider == InitProvider /\ [][NextProvider]_vars

-----------------------------------------------------------------------------
(* _fallback_session_summary *)

\* the largest distraction count and number of completed tasks given to the summary
MaxDistractions == 3
MaxTasks == 2

\* duration_min and focused_min, in tenths of a minute (round(seconds / 60, 1))
DurationTenths == {0, 200, 250}
FocusedTenths == {0, 99, 100, 125, 149, 150, 179, 180, 224, 225, 260}

SummaryArgs ==
    [duration_min : DurationTenths, focused_min : FocusedTenths,
     distractions : 0 .. MaxDistractions, tasks_completed : 0 .. MaxTasks]

\* the thresholds are passed only when exceeded
QualityAbove(duration_min, focused_min) ==
    IF duration_min <= 0 THEN "challenging"
    ELSE IF focused_min * 10 > 9 * duration_min THEN "excellent"
    ELSE IF focused_min * 4 > 3 * duration_min THEN "solid"
    ELSE IF focused_min * 2 > duration_min THEN "decent"
    ELSE "challenging"

\* focus_ratio = focused_min / duration_min if duration_min > 0 else 0, compared with
\* 0.9, 0.75 and 0.5
Quality(duration_min, focused_min) ==
    IF duration_min <= 0 THEN "challenging"
    ELSE IF focused_min * 10 >= 9 * duration_min THEN "excellent"
    ELSE IF focused_min * 4 >= 3 * duration_min THEN "solid"
    ELSE IF focused_min * 2 >= duration_min THEN "decent"
    ELSE "challenging"

\* f"{x:.0f}" of a number of tenths
Format0f(tenths) == RoundHalfEven(tenths, 10)

\* "You completed a {quality} {duration_min:.0f}-minute session with {focused_min:.0f}
\* minutes of focused work."
SessionSentence(duration_min, focused_min) ==
    [sentence |-> "You completed", quality |-> Quality(duration_min, focused_min),
     duration |-> Format0f(duration_min), focused |-> Format0f(focused_min)]

\* " You finished {tasks_completed} task{s}!"
TasksSentence(tasks_completed) ==
    [sentence |-> "You finished", n |-> tasks_completed, plural |-> tasks_completed > 1]

\* the sentence about distractions: one of three
DistractionSentence(distractions) ==
    IF distractions = 0
    THEN [sentence |-> "Zero distractions", n |-> 0, plural |-> FALSE]
    ELSE IF distractions <= 2
         THEN [sentence |-> "Only", n |-> distractions, plural |-> distractions > 1]
         ELSE [sentence |-> "You had", n |-> distractions, plural |-> TRUE]

\* _fallback_session_summary(duration_min, focused_min, distractions, tasks_completed):
\* "".join(parts)
FallbackSessionSummary(duration_min, focused_min, distractions, tasks_completed) ==
    <<SessionSentence(duration_min, focused_min)>>
        \o (IF tasks_completed > 0 THEN <<TasksSentence(tasks_completed)>> ELSE << >>)
        \o <<DistractionSentence(distractions)>>

InitSummary ==
    /\ InitIdle
    /\ now = 0
    /\ InitTables
    /\ response = << >>
    /\ args \in SummaryArgs

\* the fallback summary of a session with the given figures
FallbackSessionSummaryStep ==
    /\ answer = NoAnswer
    /\ answer' = [op |-> "fallback_summary", raised |-> FALSE,
                  value |-> FallbackSessionSummary(args.duration_min, args.focused_min,
                                                   args.distractions,
                                                   args.tasks_completed)]
    /\ UNCHANGED <<now, coachVars, streakVars, optimalVars, parseVars, callVars>>

NextSummary == FallbackSessionSummaryStep

\* the fallback summary on every combination of session figures
SpecSummary == InitSummary /\ [][NextSummary]_vars

-----------------------------------------------------------------------------
(* The read-only operations over a stored table *)

\* rate-limit checks made while the stores are watched (SpecFrame)
MaxFrameChecks == 2

\* tables the operations find: one stored session, of each kind of row
StoredTables(t) == {[x \in {s} |-> 1] : s \in InsightRows(t)}

\* the stores as some earlier requests left them: a session in the table, nothing cached
InitFrame ==
    /\ now = RequestTime
    /\ redis = << >>
    /\ sessionTable = SessionRows
    /\ last = NoRequest
    /\ req = NoInputs
    /\ lastGen = [k \in {"nudge", "goals"} |-> NoGen]
    /\ checks = 0
    /\ budget = MaxFrameChecks
    /\ sessions \in StoredTables(RequestTime)
    /\ procs = [p \in Procs |-> Idle]
    /\ tally = NoTally
    /\ raw_dates = << >>
    /\ storedDates = << >>
    /\ streak = NoStreak
    /\ optimal = NoOptimal
    /\ answer = NoAnswer
    /\ suggestions = NoSuggestions
    /\ response = << >>
    /\ args = NoArgs

\* get_stats, get_insights, the coaching helpers and the three coaching requests;
\* nothing creates, edits or deletes a session here
NextFrame ==
    \/ SessionDataStep
    \/ TrendDataStep
    \/ OptimalStep
    \/ SmartGoalsStep
    \/ DistractionPatternsStep
    \/ FocusHeatmapStep
    \/ FocusTrendStep
    \/ StatsStep
    \/ SummaryStep
    \/ NudgeStep
    \/ GoalsStep

SpecFrame == InitFrame /\ [][NextFrame]_vars

-----------------------------------------------------------------------------
(* Concurrent nudge requests of one user: each await is a step *)

\* requests started while they are followed step by step (SpecRace)
MaxRaceRequests == 22
\* requests started while a provider may hang (SpecHang)
MaxHangRequests == 3

\* the user whose requests run together
RaceUser == "u1"

\* texts the provider returns to the concurrent requests
RaceTexts == {"t1", "t2"}

\* the request time, and the time one cache lifetime later (the same date)
RacePoints == {0, NudgeTTL}

\* what no step of a request touches
raceFrame == <<sessionTable, last, req, lastGen, checks, streakVars, optimalVars, answer,
               parseVars, args>>

\* generate_coaching_nudge is called and awaits redis_client.get
NudgeCall(p) ==
    /\ procs[p].pc \in {"idle", "done"}
    /\ budget > 0
    /\ budget' = budget - 1
    /\ procs' = [procs EXCEPT ![p] = [pc |-> "get", count |-> 0, text |-> "", resp |-> None]]
    /\ UNCHANGED <<raceFrame, now, redis, tally>>

\* cached = await redis_client.get(cache_key);  if cached: return it;  otherwise
\* _get_user_patterns reads the sessions and _check_rate_limit awaits incr
CacheGet(p) ==
    /\ procs[p].pc = "get"
    /\ LET cached == RedisGet(redis, NudgeKey(RaceUser))
       IN  procs' = [procs EXCEPT ![p] =
                        IF Truthy(cached)
                        THEN [@ EXCEPT !.pc = "done", !.resp = cached]
                        ELSE [@ EXCEPT !.pc = "incr"]]
    /\ UNCHANGED <<raceFrame, now, redis, tally, budget>>

\* return count <= limit, and what follows without an await: the refusal returns the
\* fallback, the pass calls provider.generate and awaits it
AfterCheck(p, count) ==
    IF RateLimitCheck(count, RateLimit)
    THEN /\ procs' = [procs EXCEPT ![p] = [@ EXCEPT !.pc = "generating", !.count = count]]
         /\ tally' = [tally EXCEPT !.checks = @ + 1, !.passed = @ + 1, !.calls = @ + 1]
    ELSE /\ procs' = [procs EXCEPT ![p] = [@ EXCEPT !.pc = "done", !.count = count,
                                                    !.resp = FallbackText("nudge")]]
         /\ tally' = [tally EXCEPT !.checks = @ + 1]

\* count = await redis_client.incr(key);  if count == 1: await redis_client.expire(...)
Incr(p) ==
    /\ procs[p].pc = "incr"
    /\ redis' = RedisIncr(redis, RateKey(RaceUser, now))
    /\ LET count == redis'[RateKey(RaceUser, now)].val.n
       IN  IF count = 1
           THEN /\ procs' = [procs EXCEPT ![p] = [@ EXCEPT !.pc = "expire", !.count = count]]
                /\ tally' = tally
           ELSE AfterCheck(p, count)
    /\ UNCHANGED <<raceFrame, now, budget>>

\* await redis_client.expire(key, 86400) returns
Expire(p) ==
    /\ procs[p].pc = "expire"
    /\ redis' = RedisExpire(redis, RateKey(RaceUser, now), RateTTL, now)
    /\ AfterCheck(p, procs[p].count)
    /\ UNCHANGED <<raceFrame, now, budget>>

\* nudge = await provider.generate(...) returns a text;  the request awaits redis_client.set
ProviderReturns(p) ==
    /\ procs[p].pc = "generating"
    /\ \E text \in RaceTexts :
        procs' = [procs EXCEPT ![p] = [@ EXCEPT !.pc = "set", !.text = text]]
    /\ UNCHANGED <<raceFrame, now, redis, tally, budget>>

\* provider.generate raises: except Exception logs it, the fallback is returned
ProviderRaises(p) ==
    /\ procs[p].pc = "generating"
    /\ procs' = [procs EXCEPT ![p] = [@ EXCEPT !.pc = "done", !.resp = FallbackText("nudge")]]
    /\ UNCHANGED <<raceFrame, now, redis, tally, budget>>

\* provider.generate neither returns nor raises: nothing bounds the await
ProviderHangs(p) ==
    /\ procs[p].pc = "generating"
    /\ procs' = [procs EXCEPT ![p] = [@ EXCEPT !.pc = "hung"]]
    /\ UNCHANGED <<raceFrame, now, redis, tally, budget>>

\* await redis_client.set(cache_key, nudge, ex=3600);  return the nudge
CacheSet(p) ==
    /\ procs[p].pc = "set"
    /\ redis' = RedisSet(redis, NudgeKey(RaceUser), ProviderText(procs[p].text), NudgeTTL, now)
    /\ procs' = [procs EXCEPT ![p] = [@ EXCEPT !.pc = "done",
                                                !.resp = ProviderText(procs[p].text)]]
    /\ tally' = [tally EXCEPT !.writes = @ + 1, !.written = procs[p].text]
    /\ UNCHANGED <<raceFrame, now, budget>>

\* the cache lifetime passes within the date
RaceTick ==
    /\ \E t \in RacePoints :
        /\ t > now
        /\ now' = t
        /\ redis' = Purge(redis, t)
    /\ UNCHANGED <<raceFrame, procs, tally, budget>>

Step(p) ==
    \/ NudgeCall(p)
    \/ CacheGet(p)
    \/ Incr(p)
    \/ Expire(p)
    \/ ProviderReturns(p)
    \/ ProviderRaises(p)
    \/ ProviderHangs(p)
    \/ CacheSet(p)

\* no request of the day made yet, nothing cached
InitRaceOf(requests) ==
    /\ now = 0
    /\ redis = << >>
    /\ sessionTable = SessionRows
    /\ last = NoRequest
    /\ req = NoInputs
    /\ lastGen = [k \in {"nudge", "goals"} |-> NoGen]
    /\ checks = 0
    /\ budget = requests
    /\ InitOther

InitRace == InitRaceOf(MaxRaceRequests)

NextRace == (\E p \in Procs : Step(p)) \/ RaceTick

\* two requests of one user at a time, in every interleaving of their awaits
SpecRace == InitRace /\ [][NextRace]_vars

\* the requests again, few of them, each running whenever it can: the event loop
\* resumes a request whose awaited store operation has completed, and a call of the
\* provider ends in one of its three ways
InitHang == InitRaceOf(MaxHangRequests)

NextHang == (\E p \in Procs : Step(p)) \/ RaceTick

\* what a request does once it has been called
Resume(p) ==
    \/ CacheGet(p)
    \/ Incr(p)
    \/ Expire(p)
    \/ ProviderReturns(p)
    \/ ProviderRaises(p)
    \/ ProviderHangs(p)
    \/ CacheSet(p)

SpecHang == InitHang /\ [][NextHang]_vars /\ \A p \in Procs : WF_vars(Resume(p))

-----------------------------------------------------------------------------
(* Properties of the insights functions *)

\* C11: no insights or coaching computation divides by zero: for a session of duration
\* 0, for empty buckets and for an empty history every focus ratio and every average is
\* 0 (or the default) and nothing is raised.
C11_NoDivisionByZero ==
    /\ ~answer.raised
    /\ (answer.op = "session_data" /\ answer.value.duration_seconds = 0)
        => answer.value.focus_ratio = Zero /\ answer.value.fallback_focus_ratio = Zero
    /\ (answer.op = "trend_data" /\ answer.value.sessions = 0)
        => /\ answer.value.avg_focus_ratio = Zero
           /\ answer.value.avg_daily_focus_min = 0
           /\ answer.value.avg_sessions_per_day = 0
    /\ (answer.op = "trend_data"
            /\ \A s \in DOMAIN sessions :
                (s.user_id \in Requesters /\ s.is_complete) => s.duration_seconds = 0)
        => answer.value.avg_focus_ratio = Zero
    /\ (answer.op = "optimal"
            /\ \A s \in DOMAIN sessions :
                (s.user_id \in Requesters /\ s.is_complete) => s.duration_seconds = 0)
        => answer.value = [recommended_minutes |-> 25, avg_focus_ratio |-> 0,
                           sample_size |-> 0]

\* the data of a stored session of duration 0 was read
C11_Witness ==
    /\ answer.op = "session_data"
    /\ answer.value.duration_seconds = 0
    /\ ~answer.raised

RECURSIVE BagCount(_, _)
\* the number of stored rows among `rows`, each counted as often as it is stored
BagCount(table, rows) ==
    IF rows = {} THEN 0
    ELSE LET s == CHOOSE x \in rows : TRUE
         IN  table[s] + BagCount(table, rows \ {s})

\* the requester's completed sessions
Completed == {s \in DOMAIN sessions : s.user_id \in Requesters /\ s.is_complete}

\* C12: with no completed session of the user, get_smart_goals returns exactly four
\* goals in the order daily_focus, session_count, distraction_reduction, streak:
\* daily_focus with target 60.0 and current 0.0, session_count with target 5,
\* distraction_reduction with target 0 described "Stay distraction-free this week",
\* streak with target 3.
C12_DefaultGoals ==
    (answer.op = "goals" /\ Completed = {})
        => /\ Len(answer.value) = 4
           /\ answer.value[1].goal_type = "daily_focus"
           /\ answer.value[1].target_value = 600
           /\ answer.value[1].current_value = 0
           /\ answer.value[2].goal_type = "session_count"
           /\ answer.value[2].target_value = 50
           /\ answer.value[3].goal_type = "distraction_reduction"
           /\ answer.value[3].target_value = 0
           /\ answer.value[3].description.text = "Stay distraction-free this week"
           /\ answer.value[4].goal_type = "streak"
           /\ answer.value[4].target_value = 30

\* goals were asked for while only a session that is not complete and a session of
\* another user are stored
C12_Witness ==
    /\ answer.op = "goals"
    /\ Completed = {}
    /\ \E s \in DOMAIN sessions : s.user_id \in Requesters /\ ~s.is_complete
    /\ \E s \in DOMAIN sessions : s.user_id \notin Requesters

\* completed sessions of the requester started in the last 7 days
CurrentWeek == {s \in Completed : now - Days(7) <= s.start_time /\ s.start_time < now}

\* completed sessions of the requester started 7 to 14 days ago
PreviousWeek ==
    {s \in Completed : now - Days(14) <= s.start_time /\ s.start_time < now - Days(7)}

\* C13: the session_count goal's current_value is the number of completed sessions
\* started in the last 7 days; its target_value is max(previous-week count + 1, current
\* count) when the previous week (7 to 14 days ago) has a completed session, else 5;
\* the two windows are disjoint, so no session is counted in both.
C13_SessionCountGoal ==
    LET current == BagCount(sessions, CurrentWeek)
        previous == BagCount(sessions, PreviousWeek)
        both == BagCount(sessions, {s \in Completed : now - Days(14) <= s.start_time
                                                       /\ s.start_time < now})
    IN  answer.op = "goals"
            => /\ answer.value[2].goal_type = "session_count"
               /\ answer.value[2].current_value = current * 10
               /\ answer.value[2].target_value =
                    IF previous > 0 THEN Max(previous + 1, current) * 10 ELSE 50
               /\ CurrentWeek \cap PreviousWeek = {}
               /\ current + previous = both

\* sessions started exactly 7 days ago and one second before are stored, the current
\* week holds two sessions more than the previous one, and the goals were asked for
C13_Witness ==
    /\ answer.op = "goals"
    /\ \E s \in CurrentWeek : s.start_time = now - Days(7)
    /\ \E s \in PreviousWeek : s.start_time = now - Days(7) - 1
    /\ BagCount(sessions, CurrentWeek) = BagCount(sessions, PreviousWeek) + 2
    /\ answer.value[2].target_value = answer.value[2].current_value

\* distraction_count summed over the previous week
PreviousDistractions ==
    LET RECURSIVE Total(_)
        Total(rows) == IF rows = {} THEN 0
                       ELSE LET s == CHOOSE x \in rows : TRUE
                            IN  sessions[s] * s.distraction_count + Total(rows \ {s})
    IN  Total(PreviousWeek)

\* C14: the distraction_reduction target_value is round(0.8 * previous-week distraction
\* total) when that total is greater than 0, else 0, and is never negative; the
\* description is "Stay distraction-free this week" exactly when the target is 0 and
\* "Keep distractions below N this week" with N the target otherwise.
C14_DistractionGoal ==
    LET goal == answer.value[3]
        d == PreviousDistractions
    IN  answer.op = "goals"
            => /\ goal.goal_type = "distraction_reduction"
               /\ goal.target_value >= 0
               /\ goal.target_value % 10 = 0
               /\ d > 0 => /\ goal.target_value - 5 <= 8 * d
                           /\ 8 * d <= goal.target_value + 5
               /\ d <= 0 => goal.target_value = 0
               /\ (goal.description.text = "Stay distraction-free this week")
                    <=> (goal.target_value = 0)
               /\ goal.target_value # 0
                    => goal.description = [text |-> "Keep distractions below N this week",
                                           n |-> goal.target_value \div 10]

\* the previous week holds 6 distractions in two sessions and the target is 5
C14_Witness ==
    /\ answer.op = "goals"
    /\ PreviousDistractions = 6
    /\ answer.value[3].target_value = 50
    /\ answer.value[3].description.n = 5

\* the requester's sessions started in the window of the latest answer
InWindowSessions ==
    {s \in DOMAIN sessions :
        s.user_id \in Requesters /\ s.start_time >= now - Days(answer.value.days)}

\* the events of session s that are distractions of app a
DistractionsOf(s, a) ==
    {i \in DOMAIN EventsOf(s) :
        EventsOf(s)[i].event_type = "DISTRACTION" /\ EventsOf(s)[i].app_name = a}

RECURSIVE AppCount(_, _)
AppCount(rows, a) ==
    IF rows = {} THEN 0
    ELSE LET s == CHOOSE x \in rows : TRUE
         IN  sessions[s] * Cardinality(DistractionsOf(s, a)) + AppCount(rows \ {s}, a)

RECURSIVE SecondsIn(_, _)
SecondsIn(s, indices) ==
    IF indices = {} THEN 0
    ELSE LET i == CHOOSE x \in indices : TRUE
         IN  (IF EventsOf(s)[i].duration_seconds = NoDuration THEN 0
              ELSE EventsOf(s)[i].duration_seconds) + SecondsIn(s, indices \ {i})

RECURSIVE AppSeconds(_, _)
AppSeconds(rows, a) ==
    IF rows = {} THEN 0
    ELSE LET s == CHOOSE x \in rows : TRUE
         IN  sessions[s] * SecondsIn(s, DistractionsOf(s, a)) + AppSeconds(rows \ {s}, a)

\* the apps with a distraction event in the window
DistractingApps ==
    {a \in {AppNames[i] : i \in DOMAIN AppNames} : AppCount(InWindowSessions, a) > 0}

\* C15: get_distraction_patterns returns at most 10 rows, one per distinct non-null
\* app_name among the DISTRACTION events of the user's in-window sessions, each with
\* that app's event count and the sum of its event durations (a missing duration
\* counts as 0), ordered by count descending; events of other types or without an
\* app_name contribute nothing.
C15_DistractionPatterns ==
    LET rows == answer.value.rows
        named == {rows[i].app_name : i \in DOMAIN rows}
    IN  answer.op = "patterns"
            => /\ Len(rows) <= 10
               /\ Len(rows) = IF Cardinality(DistractingApps) < 10
                              THEN Cardinality(DistractingApps) ELSE 10
               /\ Cardinality(named) = Len(rows)
               /\ named \subseteq DistractingApps
               /\ \A i \in DOMAIN rows :
                    /\ rows[i].count = AppCount(InWindowSessions, rows[i].app_name)
                    /\ rows[i].total_duration_seconds =
                            AppSeconds(InWindowSessions, rows[i].app_name)
               /\ \A i \in 1 .. Len(rows) - 1 : rows[i].count >= rows[i + 1].count
               /\ \A a \in DistractingApps \ named : \A i \in DOMAIN rows :
                    AppCount(InWindowSessions, a) <= rows[i].count

\* eleven apps distracted in the window, one of them three times: ten rows are
\* returned, and an event without duration, an event without app_name and an event of
\* another type are stored
C15_Witness ==
    /\ answer.op = "patterns"
    /\ Cardinality(DistractingApps) = 11
    /\ Len(answer.value.rows) = 10
    /\ answer.value.rows[1].count >= 3
    /\ \E s \in InWindowSessions :
        \E i \in DOMAIN EventsOf(s) : EventsOf(s)[i].duration_seconds = NoDuration
    /\ \E s \in InWindowSessions :
        \E i \in DOMAIN EventsOf(s) : EventsOf(s)[i].app_name = NoApp
    /\ \E s \in InWindowSessions :
        \E i \in DOMAIN EventsOf(s) : EventsOf(s)[i].event_type = "IDLE"

\* the table without the sessions that are not complete (and without their events)
CompleteOnly(table) == [s \in {x \in DOMAIN table : x.is_complete} |-> table[s]]

\* C16: every aggregation ignores the sessions that are not complete: the heatmap, the
\* trend, the distraction patterns, the stats summary with its streak, the optimal
\* length and the smart goals answer what they answer on the table with the incomplete
\* sessions, and the events attached to them, removed.
C16_IncompleteSessionsIgnored ==
    \A u \in Requesters :
        /\ answer.op = "heatmap" =>
            answer.value.rows
                = FocusHeatmap(CompleteOnly(sessions), u, now, answer.value.days)
        /\ answer.op = "trend" =>
            answer.value.rows
                = FocusTrend(CompleteOnly(sessions), u, now, answer.value.days)
        /\ answer.op = "patterns" =>
            \E ties \in TieOrders :
                answer.value.rows
                    = DistractionPatterns(CompleteOnly(sessions), u, now,
                                          answer.value.days, ties)
        /\ answer.op = "stats" =>
            \E dialect \in Dialects :
                answer.value
                    = Stats(CompleteOnly(sessions), u, now, answer.value.period, dialect)
        /\ answer.op = "optimal" =>
            answer.value = OptimalSessionLength(CompleteOnly(sessions), u)
        /\ answer.op = "goals" =>
            \E dialect \in Dialects :
                answer.value = SmartGoals(CompleteOnly(sessions), u, now, dialect)

\* the same, for every aggregation but the distraction patterns
C16_IgnoredButByPatterns == answer.op # "patterns" => C16_IncompleteSessionsIgnored

\* an aggregation other than the patterns answered with an incomplete session stored
C16_Witness ==
    /\ answer.op \in {"heatmap", "trend", "stats", "optimal", "goals"}
    /\ \E s \in DOMAIN sessions : ~s.is_complete /\ s.user_id \in Requesters
    /\ \E s \in DOMAIN sessions : s.is_complete /\ s.user_id \in Requesters

\* the requester's completed sessions started in the window of the latest answer
HeatmapSessions == {s \in InWindowSessions : s.is_complete}

\* the sessions among `rows` that start in hour h of weekday d (Monday = 0)
StartingIn(rows, h, d) ==
    {s \in rows : (s.start_time % SecondsPerDay) \div 3600 = h
                    /\ (s.start_time \div SecondsPerDay + EpochWeekday) % 7 = d}

RECURSIVE FocusedIn(_)
\* the focused seconds of the stored rows among `rows`
FocusedIn(rows) ==
    IF rows = {} THEN 0
    ELSE LET s == CHOOSE x \in rows : TRUE
         IN  sessions[s] * s.focused_seconds + FocusedIn(rows \ {s})

\* C17: get_focus_heatmap returns exactly one entry for each (hour, day_of_week) in
\* which a completed in-window session of the user starts, with hour in 0..23 and
\* day_of_week in 0..6 (Monday = 0), focused_minutes the sum of those sessions'
\* focused_seconds divided by 60 and rounded to one decimal, the entries ascending by
\* (hour, day_of_week).
C17_FocusHeatmap ==
    answer.op = "heatmap" =>
        LET rows == answer.value.rows
        IN  /\ \A i \in DOMAIN rows :
                /\ rows[i].hour \in 0 .. 23
                /\ rows[i].day_of_week \in 0 .. 6
                /\ StartingIn(HeatmapSessions, rows[i].hour, rows[i].day_of_week) # {}
                \* focused_minutes, in tenths, is within 0.05 of the sum / 60
                /\ LET sum == FocusedIn(StartingIn(HeatmapSessions, rows[i].hour,
                                                   rows[i].day_of_week))
                   IN  /\ rows[i].focused_minutes * 6 - sum \in (0 - 3) .. 3
                       /\ sum % 60 = 0 => rows[i].focused_minutes * 6 = sum
            /\ \A s \in HeatmapSessions :
                \E i \in DOMAIN rows :
                    s \in StartingIn({s}, rows[i].hour, rows[i].day_of_week)
            /\ \A i \in DOMAIN rows :
                \A j \in DOMAIN rows :
                    i < j => \/ rows[i].hour < rows[j].hour
                             \/ /\ rows[i].hour = rows[j].hour
                                /\ rows[i].day_of_week < rows[j].day_of_week

\* a heatmap of two entries or more, one of them summing two sessions to a value that
\* is rounded, asked while an incomplete session of the user is stored
C17_Witness ==
    /\ answer.op = "heatmap"
    /\ Len(answer.value.rows) >= 2
    /\ \E i \in DOMAIN answer.value.rows :
        LET in == StartingIn(HeatmapSessions, answer.value.rows[i].hour,
                             answer.value.rows[i].day_of_week)
        IN  BagCount(sessions, in) >= 2 /\ FocusedIn(in) % 6 # 0
    /\ \E s \in DOMAIN sessions : s.user_id \in Requesters /\ ~s.is_complete

-----------------------------------------------------------------------------
(* Properties of goal parsing *)

\* the positions of token c in the text
Positions(text, c) == {i \in DOMAIN text : text[i] = c}

Least(S) == CHOOSE x \in S : \A y \in S : x <= y

Greatest(S) == CHOOSE x \in S : \A y \in S : x >= y

\* the text from the first "[" to the last "]", or the empty text when there is no such
\* stretch
Bracketed(text) ==
    IF Positions(text, "[") # {} /\ Positions(text, "]") # {}
    THEN SubSeq(text, Least(Positions(text, "[")), Greatest(Positions(text, "]")))
    ELSE << >>

IsArray(text) == JsonLoads(text).ok /\ JsonLoads(text).val.t = "list"

\* the elements of the array the text holds: of the whole text, or, failing that, of
\* its bracketed stretch;  no array: ok is FALSE
ArrayOf(text) ==
    IF IsArray(text) THEN [ok |-> TRUE, items |-> JsonLoads(text).val.items]
    ELSE IF IsArray(Bracketed(text))
         THEN [ok |-> TRUE, items |-> JsonLoads(Bracketed(text)).val.items]
         ELSE [ok |-> FALSE, items |-> << >>]

\* an element that is an object with the keys goal, target and reasoning
HasAllKeys(e) ==
    e.t = "dict" /\ \A k \in {"goal", "target", "reasoning"} : k \in DOMAIN ObjectOf(e.tok)

\* the value as a string
AsString(v) == IF DOMAIN v = {"s"} THEN v.s ELSE ToString(v.n)

\* the valid elements of a list of elements, their values as strings
ValidElements(items) ==
    LET valid == SelectSeq(items, HasAllKeys)
    IN  [i \in DOMAIN valid |->
            [goal |-> AsString(ObjectOf(valid[i].tok).goal),
             target |-> AsString(ObjectOf(valid[i].tok).target),
             reasoning |-> AsString(ObjectOf(valid[i].tok).reasoning)]]

\* C18: _parse_goals_json returns the valid elements (objects with goal, target and
\* reasoning, values as strings, other elements dropped) of the array obtained by
\* parsing the whole text or, failing that, the text from the first "[" to the last
\* "]";  it returns None when no array can be parsed or no element is valid, and then
\* the goals request returns the fallback, not flagged AI-generated.
C18_ParseGoalsJson ==
    suggestions.op # "none" =>
        LET array == ArrayOf(response)
            none == ~array.ok \/ ValidElements(array.items) = << >>
        IN  /\ none => ~suggestions.parsed.ok
            /\ ~none => /\ suggestions.parsed.ok
                        /\ suggestions.parsed.goals = ValidElements(array.items)
            /\ (suggestions.op = "request" /\ none)
                => suggestions.resp = FallbackGoals /\ ~suggestions.ai
            /\ (suggestions.op = "request" /\ ~none)
                => /\ suggestions.resp = ProviderGoals(ValidElements(array.items))
                   /\ suggestions.ai

\* an array between markdown fences was parsed and returned by the goals request, its
\* numeric target as a string
C18_Witness ==
    /\ suggestions.op = "request"
    /\ response = <<"P", "[", "Gn", "]", "P">>
    /\ suggestions.ai
    /\ suggestions.resp
        = ProviderGoals(<<[goal |-> "A", target |-> "60", reasoning |-> "C"]>>)

\* an array whose elements all miss a required key made the goals request fall back
C18_WitnessAllInvalid ==
    /\ suggestions.op = "request"
    /\ response = <<"[", "B", ",", "B", "]">>
    /\ suggestions.resp = FallbackGoals

\* C19: a response that is a single JSON object with the keys goal, target and
\* reasoning, not inside an array, is accepted by goal parsing as a list of that one
\* goal, and the goals request returns it flagged AI-generated.
C19_SingleObjectAccepted ==
    (suggestions.op # "none" /\ Len(response) = 1 /\ response[1] \in {"G1", "Gn"}) =>
        /\ suggestions.parsed.ok
        /\ Len(suggestions.parsed.goals) = 1
        /\ suggestions.op = "request" =>
            suggestions.ai /\ suggestions.resp = ProviderGoals(suggestions.parsed.goals)

-----------------------------------------------------------------------------
(* Properties of the rate limit across users and dates *)

\* C20: the rate-limit counters are per user and per calendar date: a check of one user
\* adds one to that user's count of the day and passes exactly when that count was
\* below the limit, whatever the other users' counts and whatever the counts of
\* earlier dates still stored;  it changes no other user's count;  and when the date
\* changes every user's count of the day starts from zero again.
C20_RateLimitPerUserPerDate ==
    [][/\ (now' = now /\ redis' # redis) =>
            \A u \in Users :
                IF answer'.value.user = u
                THEN /\ CounterOf(redis', u, now) = CounterOf(redis, u, now) + 1
                     /\ answer'.value.ok = (CounterOf(redis, u, now) < RateLimit)
                ELSE CounterOf(redis', u, now) = CounterOf(redis, u, now)
       /\ DateOf(now') # DateOf(now) =>
            \A u \in Users : CounterOf(redis', u, now') = 0]_vars

\* on the second date a user is refused again while the count of the first date, also
\* beyond the limit, is still stored, and the check of another user has just passed
C20_Witness ==
    /\ DateOf(now) = 1
    /\ CounterOf(redis, "u1", now) = RateLimit + 1
    /\ CounterOf(redis, "u1", 0) = RateLimit + 1
    /\ answer.op = "rate" /\ answer.value.user = "u2" /\ answer.value.ok

-----------------------------------------------------------------------------
(* Properties of create_provider *)

\* C22: create_provider returns an OpenAI provider exactly when AI_PROVIDER is "openai"
\* and OPENAI_API_KEY is not empty, an Anthropic provider exactly when AI_PROVIDER is
\* "anthropic" and ANTHROPIC_API_KEY is not empty, and None in every other case, also
\* when only the other provider's key is set;  the provider carries its own key, and
\* its model is AI_MODEL when set and the provider's default otherwise.
C22_CreateProvider ==
    answer.op = "create_provider" =>
        LET made == answer.value
            openai == args.AI_PROVIDER = "openai" /\ args.OPENAI_API_KEY # ""
            anthropic == args.AI_PROVIDER = "anthropic" /\ args.ANTHROPIC_API_KEY # ""
        IN  /\ made.class = "OpenAIProvider" <=> openai
            /\ made.class = "AnthropicProvider" <=> anthropic
            /\ made.class = "NoneType" <=> ~openai /\ ~anthropic
            /\ openai => made.api_key = args.OPENAI_API_KEY
            /\ anthropic => made.api_key = args.ANTHROPIC_API_KEY
            /\ (made.class # "NoneType" /\ args.AI_MODEL # "") => made.model = args.AI_MODEL
            /\ (openai /\ args.AI_MODEL = "") => made.model = "gpt-4o-mini"
            /\ (anthropic /\ args.AI_MODEL = "") => made.model = "claude-sonnet-4-6"

\* the named provider has no key while the other provider's key is set: None
C22_Witness ==
    /\ answer.op = "create_provider"
    /\ args.AI_PROVIDER = "anthropic"
    /\ args.ANTHROPIC_API_KEY = ""
    /\ args.OPENAI_API_KEY # ""
    /\ answer.value = NoneProvider

-----------------------------------------------------------------------------
(* Properties of the fallback summary *)

\* the sentences of the latest summary that begin with one of `openings`
SentencesOf(openings) ==
    {i \in DOMAIN answer.value : answer.value[i].sentence \in openings}

\* C24: _fallback_session_summary calls the session "excellent" when focused / duration
\* >= 0.9, "solid" when >= 0.75, "decent" when >= 0.5 and "challenging" otherwise, a
\* zero duration counting as ratio 0;  the tasks sentence is there only when
\* tasks_completed > 0;  and there is exactly one distraction sentence, chosen by
\* whether the count is 0, 1 to 2, or more than 2.
C24_FallbackSessionSummary ==
    answer.op = "fallback_summary" =>
        LET d == args.duration_min
            f == args.focused_min
            quality == answer.value[1].quality
        IN  /\ answer.value[1].sentence = "You completed"
            /\ quality = "excellent" <=> d # 0 /\ f * 100 >= 90 * d
            /\ quality = "solid" <=> d # 0 /\ f * 100 >= 75 * d /\ f * 100 < 90 * d
            /\ quality = "decent" <=> d # 0 /\ f * 100 >= 50 * d /\ f * 100 < 75 * d
            /\ quality = "challenging" <=> d = 0 \/ f * 100 < 50 * d
            /\ Cardinality(SentencesOf({"You finished"}))
                = IF args.tasks_completed > 0 THEN 1 ELSE 0
            /\ Cardinality(SentencesOf({"Zero distractions", "Only", "You had"})) = 1
            /\ SentencesOf({"Zero distractions"}) # {} <=> args.distractions = 0
            /\ SentencesOf({"Only"}) # {} <=> args.distractions \in 1 .. 2
            /\ SentencesOf({"You had"}) # {} <=> args.distractions > 2
            /\ Len(answer.value)
                = 2 + Cardinality(SentencesOf({"You finished"}))

\* a ratio of exactly 0.9 with two distractions and no task: "excellent", the "Only"
\* sentence, no tasks sentence
C24_Witness ==
    /\ answer.op = "fallback_summary"
    /\ args.duration_min = 200 /\ args.focused_min = 180
    /\ args.distractions = 2 /\ args.tasks_completed = 0
    /\ answer.value[1].quality = "excellent"
    /\ Len(answer.value) = 2
    /\ answer.value[2].sentence = "Only"

\* a zero duration with focused time: "challenging"
C24_WitnessZeroDuration ==
    /\ answer.op = "fallback_summary"
    /\ args.duration_min = 0 /\ args.focused_min > 0
    /\ answer.value[1].quality = "challenging"

-----------------------------------------------------------------------------
(* Properties of the counter, its expiry and the summary cache *)

\* C25: with a store attached, every coaching request that reaches generation adds
\* exactly one to the rate counter, also with no provider configured and when it is
\* refused for being over the limit;  a nudge or goals request served from the cache
\* and a summary request for a session that is not found leave the counter as it is;
\* so the counter holds the number of checks of the day.
C25_CounterPerGeneration ==
    \A u \in Requesters :
        LET before == CounterOf(redis, u, now)
        IN  /\ before = checks
            /\ \A sid \in SessionIds, provider \in Providers(Texts) :
                LET out == GenerateSessionSummary(redis, sessionTable, u, sid, provider,
                                                  TRUE, {}, now)
                IN  CounterOf(out.st, u, now)
                        = IF out.resp = NotFound THEN before ELSE before + 1
            /\ \A provider \in Providers(Texts) :
                LET out == GenerateCoachingNudge(redis, u, provider, TRUE, {}, now)
                IN  CounterOf(out.st, u, now) = IF out.hit THEN before ELSE before + 1
            /\ \A provider \in Providers(GoalRaws) :
                LET out == GenerateGoalSuggestions(redis, u, provider, TRUE, {}, now)
                IN  CounterOf(out.st, u, now) = IF out.hit THEN before ELSE before + 1

\* the second check of the day was made by a request that called no provider and
\* returned the fallback: no provider was configured, and the request was counted
C25_Witness ==
    /\ last.checked /\ last.calls = 0 /\ last.src = "fallback"
    /\ checks = 2
    /\ CounterOf(redis, "u1", now) = 2

\* C27: generate_session_summary never reads the summary cache: every call for a session
\* of the user, within the rate limit and with a provider that returns, calls the
\* provider once, returns its text as AI-generated and writes it under the session's
\* key with 86400 s to live, whether or not the key already holds an entry.
C27_SummaryWriteOnly ==
    \A u \in Requesters, sid \in DOMAIN sessionTable, text \in Texts :
        (sessionTable[sid].user_id = u /\ CounterOf(redis, u, now) < RateLimit) =>
            LET provider == [configured |-> TRUE, raise |-> FALSE, out |-> text]
                out == GenerateSessionSummary(redis, sessionTable, u, sid, provider,
                                              TRUE, {}, now)
            IN  /\ out.calls = 1
                /\ out.ai
                /\ out.resp = ProviderText(text)
                /\ SummaryKey(sid) \in DOMAIN out.st
                /\ out.st[SummaryKey(sid)]
                    = [val |-> ProviderText(text), exp |-> now + SecondsPerDay]

\* a summary request has called the provider and its text "t1" is in the cache, with
\* the requester still within the limit: the next request finds the entry there
C27_Witness ==
    /\ last.op = "summary" /\ last.calls = 1 /\ last.ai
    /\ SummaryKey("s1") \in DOMAIN redis
    /\ redis[SummaryKey("s1")].val = ProviderText("t1")
    /\ CounterOf(redis, "u1", now) \in 2 .. (RateLimit - 1)

\* the counters in a store
RateKeys(st) == {k \in DOMAIN st : k[1] = "ai_rate"}

\* C26: the expiry of a rate counter, 86400 s, is set by the check that finds the count
\* at 1 and by no later one: a counter that stays keeps its expiry, a new counter has
\* count 1 and expires 86400 s after now, and a counter is gone only after the date it
\* counts: it never starts again within that date.
C26_CounterExpiry ==
    [][/\ \A k \in RateKeys(redis') :
            IF k \in RateKeys(redis)
            THEN redis'[k].exp = redis[k].exp
            ELSE redis'[k].val.n = 1 /\ redis'[k].exp = now' + 24 * 3600
       /\ \A k \in RateKeys(redis) \ RateKeys(redis') : k[3] < DateOf(now')
       /\ \A k \in RateKeys(redis) \cap RateKeys(redis') :
            redis'[k].val.n >= redis[k].val.n]_vars

\* a counter made at the start of the day was incremented an hour later, beyond the
\* limit, and still expires 86400 s after its first increment
C26_Witness ==
    /\ now = NudgeTTL
    /\ answer.op = "rate" /\ answer.value.user = "u1" /\ answer.value.at = now
    /\ ~answer.value.ok
    /\ redis[RateKey("u1", now)].exp = 24 * 3600

-----------------------------------------------------------------------------
(* Properties of the window and of the stores *)

\* the table without the sessions that start before now - days or after now
StartedWithin(table, days) ==
    [s \in {x \in DOMAIN table : x.start_time >= now - Days(days) /\ x.start_time <= now}
        |-> table[s]]

\* C30: the heatmap, the trend and the distraction patterns count only the sessions
\* whose start_time lies in [now - days, now]: they answer what they answer on the
\* table with the sessions that start earlier than now - days or later than now
\* removed.
C30_WindowEndsNow ==
    \A u \in Requesters :
        /\ answer.op = "heatmap" =>
            answer.value.rows
                = FocusHeatmap(StartedWithin(sessions, answer.value.days), u, now,
                               answer.value.days)
        /\ answer.op = "trend" =>
            answer.value.rows
                = FocusTrend(StartedWithin(sessions, answer.value.days), u, now,
                             answer.value.days)
        /\ answer.op = "patterns" =>
            \E ties \in TieOrders :
                answer.value.rows
                    = DistractionPatterns(StartedWithin(sessions, answer.value.days), u,
                                          now, answer.value.days, ties)

\* the same with the sessions that start later than now left in the table: only those
\* that start before now - days are removed
C30_WindowStartsAtDays ==
    \A u \in Requesters :
        LET since == [s \in {x \in DOMAIN sessions :
                                x.start_time >= now - Days(answer.value.days)}
                        |-> sessions[s]]
        IN  /\ answer.op = "heatmap" =>
                answer.value.rows = FocusHeatmap(since, u, now, answer.value.days)
            /\ answer.op = "trend" =>
                answer.value.rows = FocusTrend(since, u, now, answer.value.days)
            /\ answer.op = "patterns" =>
                \E ties \in TieOrders :
                    answer.value.rows
                        = DistractionPatterns(since, u, now, answer.value.days, ties)


\* keys of the key-value store under which the coaching engine keeps its caches and
\* its rate counters
CoachingKeys(st) == {k \in DOMAIN st : k[1] \in {"ai_rate", "ai_summary", "ai_nudge", "ai_goals"}}

\* C23: no insights, stats or coaching operation modifies the stored sessions, their
\* events or the tasks: every step of such an operation leaves the session table (with
\* the events of each row) as it was, and what it writes, if anything, is a cache
\* entry or a rate counter of the key-value store.
C23_StoresUnchanged ==
    [][/\ sessions' = sessions
       /\ sessionTable' = sessionTable
       /\ \A k \in DOMAIN redis' :
            (k \notin DOMAIN redis \/ redis'[k] # redis[k]) => k \in CoachingKeys(redis')
       /\ \A k \in DOMAIN redis : k \in DOMAIN redis']_vars

\* a stored session was read by get_stats after a coaching request had written a
\* nudge to the cache and counted itself
C23_Witness ==
    /\ answer.op = "stats"
    /\ answer.value # Stats(<< >>, "u1", now, "weekly", "str")
    /\ last.op = "nudge"
    /\ NudgeKey("u1") \in DOMAIN redis
    /\ CounterOf(redis, "u1", now) = 2


\* requests between their increment and the end of their rate-limit check
Checking == {p \in Procs : procs[p].pc = "expire"}

\* C21: in every interleaving of the concurrent requests of one user on one date the
\* rate limiter does not undercount: at most RateLimit (20) checks have passed, the
\* provider has been called at most 20 times, and the counter is not lower than the
\* number of checks performed (it is ahead by the increments whose check has not
\* returned yet).
C21_NeverUndercounts ==
    /\ tally.passed <= RateLimit
    /\ tally.calls <= RateLimit
    /\ CounterOf(redis, RaceUser, now) >= tally.checks
    /\ CounterOf(redis, RaceUser, now) = tally.checks + Cardinality(Checking)

\* two requests in flight together took the last two passes of the date: both await the
\* provider, which has now been called 20 times
C21_Witness ==
    /\ procs["p1"].pc = "generating" /\ procs["p1"].count = RateLimit - 1
    /\ procs["p2"].pc = "generating" /\ procs["p2"].count = RateLimit
    /\ tally.checks = RateLimit
    /\ tally.passed = RateLimit
    /\ tally.calls = RateLimit
    /\ CounterOf(redis, RaceUser, now) = RateLimit


\* C28: cache writes are last-writer-wins.  A request that generated a nudge writes it
\* whatever the cache holds by then, with a lifetime of 3600 s from the write; after
\* every step a cached nudge is the text written last and has not expired; and a request
\* answered from the cache returns that text.
C28_LastWriterWins ==
    [][/\ \A p \in Procs :
            /\ (procs[p].pc = "set" /\ procs'[p].pc = "done") =>
                    /\ redis'[NudgeKey(RaceUser)] =
                            [val |-> ProviderText(procs[p].text), exp |-> now + NudgeTTL]
                    /\ tally'.written = procs[p].text
                    /\ procs'[p].resp = ProviderText(procs[p].text)
            /\ (procs[p].pc = "get" /\ procs'[p].pc = "done") =>
                    procs'[p].resp = ProviderText(tally.written)
       /\ NudgeKey(RaceUser) \in DOMAIN redis' =>
            /\ redis'[NudgeKey(RaceUser)].val = ProviderText(tally'.written)
            /\ redis'[NudgeKey(RaceUser)].exp > now']_vars

\* two requests missed the cache together and generated different texts; both wrote,
\* and the cache holds the text of the request that wrote last (the one that had been
\* counted first)
C28_Witness ==
    /\ now = 0
    /\ tally.checks = 2
    /\ tally.writes = 2
    /\ procs["p1"] = [pc |-> "done", count |-> 2, text |-> "t1", resp |-> ProviderText("t1")]
    /\ procs["p2"] = [pc |-> "done", count |-> 1, text |-> "t2", resp |-> ProviderText("t2")]
    /\ tally.written = "t2"
    /\ RedisGet(redis, NudgeKey(RaceUser)) = ProviderText("t2")


\* C29: every coaching request eventually returns a response, also when the call of
\* the provider never returns.
C29_RequestReturns ==
    \A p \in Procs : (procs[p].pc = "get") ~> (procs[p].pc = "done")

\* when the provider answers or raises, the request returns
C29_ReturnsUnlessHung ==
    \A p \in Procs : (procs[p].pc = "get") ~> (procs[p].pc \in {"done", "hung"})

==============================================================================
